---- MODULE Spec2Model ----
(***************************************************************************)
(* A model of the protocol engine of python-carplay: the 16-byte frame     *)
(* header codec (common.py), the sendable messages (sendable.py) and the   *)
(* session engine DongleDriver (dongle_driver.py) with its caller thread,  *)
(* read threads and heartbeat threads.  One step of the model is one       *)
(* access to the driver's shared attributes (or one blocking USB call).    *)
(***************************************************************************)
EXTENDS Integers, Sequences, FiniteSets, TLC

(***************************************************************************)
(* Bounds of the exploration.                                              *)
(***************************************************************************)
\* start() calls that get past the device check (each spawns a thread pair)
MaxStarts == 2
\* initialize() calls that find no device set
MaxInits == 2
\* message events delivered to the sinks
MaxEvents == 1
\* HeartBeat frames accepted by the OUT endpoint
MaxBeats == 1
\* frames the OUT endpoint has received when a heartbeat thread stops being
\* followed into another HeartBeat write
MaxOut == 15
\* close() calls of the second application thread
MaxCloses == 1
\* send() calls issued directly by the caller
MaxSends == 1
\* at most this many listeners registered for one event
MaxListeners == 2
\* at most this many bytes of a frame are altered on the line
MaxAltered == 1
\* at most this many calls of the callback of a TouchHandler are followed
MaxSent == 3

(***************************************************************************)
(* common.py                                                               *)
(***************************************************************************)
MAX_ERROR_COUNT == 5
DATA_LENGTH == 16
MAGIC == 1437226410

CommandMapping ==
  [invalid |-> 0, startRecordAudio |-> 1, stopRecordAudio |-> 2,
   requestHostUI |-> 3, siri |-> 5, mic |-> 7, boxMic |-> 15,
   enableNightMode |-> 16, disableNightMode |-> 17, wifi24g |-> 24,
   wifi5g |-> 25, left |-> 100, right |-> 101, frame |-> 12,
   audioTransferOn |-> 22, audioTransferOff |-> 23, selectDown |-> 104,
   selectUp |-> 105, back |-> 106, up |-> 113, down |-> 114, home |-> 200,
   play |-> 201, pause |-> 202, playOrPause |-> 203, next |-> 204,
   prev |-> 205, acceptPhone |-> 300, rejectPhone |-> 301,
   requestVideoFocus |-> 500, releaseVideoFocus |-> 501, wifiEnable |-> 1000,
   autoConnetEnable |-> 1001, wifiConnect |-> 1002, scanningDevice |-> 1003,
   deviceFound |-> 1004, deviceNotFound |-> 1005,
   connectDeviceFailed |-> 1006, btConnected |-> 1007,
   btDisconnected |-> 1008, wifiConnected |-> 1009,
   wifiDisconnected |-> 1010, btPairStart |-> 1011, wifiPair |-> 1012]

CommandCodes == {CommandMapping[n] : n \in DOMAIN CommandMapping}

MessageType ==
  [Open |-> 1, Plugged |-> 2, Phase |-> 3, Unplugged |-> 4, Touch |-> 5,
   VideoData |-> 6, AudioData |-> 7, Command |-> 8, LogoType |-> 9,
   DisconnectPhone |-> 15, CloseDongle |-> 21, BluetoothAddress |-> 10,
   BluetoothPIN |-> 12, BluetoothDeviceName |-> 13, WifiDeviceName |-> 14,
   BluetoothPairedList |-> 18, ManufacturerInfo |-> 20, MultiTouch |-> 23,
   HiCarLink |-> 24, BoxSettings |-> 25, MediaData |-> 42, Unknown |-> 38,
   SendFile |-> 153, HeartBeat |-> 170, SoftwareVersion |-> 204]

MessageTypeCodes == {MessageType[n] : n \in DOMAIN MessageType}

\* Unsigned 32-bit fields are held as the numbers below 2^31 that the model's
\* frames use, and on the wire as their four bytes.
\* struct.pack('<I', n): four bytes, least significant first
PackU32(n) ==
  << n % 256, (n \div 256) % 256, (n \div 65536) % 256,
     (n \div 16777216) % 256 >>

\* struct.unpack('<I', b)[0] on a four-byte string
UnpackU32(b) == b[1] + 256 * b[2] + 65536 * b[3] + 16777216 * b[4]

\* data[lo:hi] of Python (0-based, end-exclusive, clipped to the string)
Slice(data, lo, hi) ==
  SubSeq(data, lo + 1, IF hi > Len(data) THEN Len(data) ELSE hi)

\* struct.pack('<I', (t ^ -1) & 0xffffffff) from the four bytes of t:
\* 2^32 - 1 - t has every byte of t complemented
TypeCheck(b) == << 255 - b[1], 255 - b[2], 255 - b[3], 255 - b[4] >>

\* as_buffer with the type written before the length
as_buffer_type_first(message_type, byte_length) ==
  PackU32(MAGIC) \o PackU32(message_type) \o PackU32(byte_length)
    \o TypeCheck(PackU32(message_type))

\* MessageHeader.as_buffer
as_buffer(message_type, byte_length) ==
  PackU32(MAGIC) \o PackU32(byte_length) \o PackU32(message_type)
    \o TypeCheck(PackU32(message_type))

\* from_buffer refusing the type codes that are no MessageType member
from_buffer_recognized(data) ==
  IF Len(data) # 16
    THEN [ok |-> FALSE, error |-> "Invalid buffer size", length |-> 0,
          type |-> 0, known |-> FALSE]
  ELSE IF Slice(data, 0, 4) # PackU32(MAGIC)
    THEN [ok |-> FALSE, error |-> "Invalid magic number", length |-> 0,
          type |-> 0, known |-> FALSE]
  ELSE IF \/ Slice(data, 12, 16) # TypeCheck(Slice(data, 8, 12))
          \/ UnpackU32(Slice(data, 8, 12)) \notin MessageTypeCodes
    THEN [ok |-> FALSE, error |-> "Invalid type check", length |-> 0,
          type |-> 0, known |-> FALSE]
  ELSE [ok |-> TRUE, error |-> "", length |-> UnpackU32(Slice(data, 4, 8)),
        type |-> UnpackU32(Slice(data, 8, 12)), known |-> TRUE]

\* MessageHeader.from_buffer: a header, or the HeaderBuildError it raises.
\* known tells whether the type converted to a MessageType member.
from_buffer(data) ==
  IF Len(data) # 16
    THEN [ok |-> FALSE, error |-> "Invalid buffer size", length |-> 0,
          type |-> 0, known |-> FALSE]
  ELSE IF Slice(data, 0, 4) # PackU32(MAGIC)
    THEN [ok |-> FALSE, error |-> "Invalid magic number", length |-> 0,
          type |-> 0, known |-> FALSE]
  ELSE IF Slice(data, 12, 16) # TypeCheck(Slice(data, 8, 12))
    THEN [ok |-> FALSE, error |-> "Invalid type check", length |-> 0,
          type |-> 0, known |-> FALSE]
  ELSE [ok |-> TRUE, error |-> "", length |-> UnpackU32(Slice(data, 4, 8)),
        type |-> UnpackU32(Slice(data, 8, 12)),
        known |-> UnpackU32(Slice(data, 8, 12)) \in MessageTypeCodes]

(***************************************************************************)
(* sendable.py                                                             *)
(***************************************************************************)
FileAddress ==
  [DPI |-> "/tmp/screen_dpi", NIGHT_MODE |-> "/tmp/night_mode",
   HAND_DRIVE_MODE |-> "/tmp/hand_drive_mode",
   CHARGE_MODE |-> "/tmp/charge_mode", BOX_NAME |-> "/etc/box_name",
   OEM_ICON |-> "/etc/oem_icon.png", AIRPLAY_CONFIG |-> "/etc/airplay.conf",
   ICON_120 |-> "/etc/icon_120x120.png", ICON_180 |-> "/etc/icon_180x180.png",
   ICON_250 |-> "/etc/icon_256x256.png",
   ANDROID_WORK_MODE |-> "/etc/android_work_mode"]

\* str.encode('ascii') of the strings the model sends
AsciiEncode(s) ==
  CASE s = "/tmp/screen_dpi" ->
         <<47, 116, 109, 112, 47, 115, 99, 114, 101, 101, 110, 95, 100, 112,
           105>>
    [] s = "/tmp/night_mode" ->
         <<47, 116, 109, 112, 47, 110, 105, 103, 104, 116, 95, 109, 111, 100,
           101>>
    [] s = "/tmp/hand_drive_mode" ->
         <<47, 116, 109, 112, 47, 104, 97, 110, 100, 95, 100, 114, 105, 118,
           101, 95, 109, 111, 100, 101>>
    [] s = "/tmp/charge_mode" ->
         <<47, 116, 109, 112, 47, 99, 104, 97, 114, 103, 101, 95, 109, 111,
           100, 101>>
    [] s = "/etc/box_name" ->
         <<47, 101, 116, 99, 47, 98, 111, 120, 95, 110, 97, 109, 101>>
    [] s = "/etc/android_work_mode" ->
         <<47, 101, 116, 99, 47, 97, 110, 100, 114, 111, 105, 100, 95, 119,
           111, 114, 107, 95, 109, 111, 100, 101>>
    [] s = "nodePlay" -> <<110, 111, 100, 101, 80, 108, 97, 121>>
    [] s = "carBox" -> <<99, 97, 114, 66, 111, 120>>
    [] s = "mediaDelay" -> <<109, 101, 100, 105, 97, 68, 101, 108, 97, 121>>
    [] s = "syncTime" -> <<115, 121, 110, 99, 84, 105, 109, 101>>
    [] s = "androidAutoSizeW" ->
         <<97, 110, 100, 114, 111, 105, 100, 65, 117, 116, 111, 83, 105, 122,
           101, 87>>
    [] s = "androidAutoSizeH" ->
         <<97, 110, 100, 114, 111, 105, 100, 65, 117, 116, 111, 83, 105, 122,
           101, 72>>
    [] s = "/etc/oem_icon.png" ->
         <<47, 101, 116, 99, 47, 111, 101, 109, 95, 105, 99, 111, 110, 46,
           112, 110, 103>>
    [] s = "/etc/airplay.conf" ->
         <<47, 101, 116, 99, 47, 97, 105, 114, 112, 108, 97, 121, 46, 99, 111,
           110, 102>>
    [] s = "oemIconVisible" ->
         <<111, 101, 109, 73, 99, 111, 110, 86, 105, 115, 105, 98, 108, 101>>
    [] s = "name" ->
         <<110, 97, 109, 101>>
    [] s = "AutoBox" ->
         <<65, 117, 116, 111, 66, 111, 120>>
    [] s = "model" ->
         <<109, 111, 100, 101, 108>>
    [] s = "Magic-Car-Link-1.00" ->
         <<77, 97, 103, 105, 99, 45, 67, 97, 114, 45, 76, 105, 110, 107, 45,
           49, 46, 48, 48>>
    [] s = "oemIconPath" ->
         <<111, 101, 109, 73, 99, 111, 110, 80, 97, 116, 104>>
    [] s = "oemIconLabel" ->
         <<111, 101, 109, 73, 99, 111, 110, 76, 97, 98, 101, 108>>
    [] s = "car" ->
         <<99, 97, 114>>

\* round(time.time()) at the moment a SendBoxSettings payload is built
get_current_time_in_ms == 1761782400

RECURSIVE Digits(_)
\* str(n).encode('ascii') for n >= 0
Digits(n) ==
  IF n < 10 THEN <<48 + n>> ELSE Digits(n \div 10) \o <<48 + (n % 10)>>

RECURSIVE JsonItems(_)
\* the '"key": value' items of json.dumps, joined by ', '
JsonItems(pairs) ==
  IF pairs = <<>> THEN <<>>
  ELSE <<34>> \o AsciiEncode(pairs[1][1]) \o <<34, 58, 32>>
         \o Digits(pairs[1][2])
         \o (IF Len(pairs) > 1 THEN <<44, 32>> ELSE <<>>)
         \o JsonItems(Tail(pairs))

\* A float coordinate is held as its multiple of 1/Unit: the coordinates of
\* the model are the floats n/1024, on which 10000 * x and the division of
\* canvas_to_normalized are exact
Unit == 1024

\* a clamp without its upper end
clamp_floor_only(value, min_val, max_val) ==
  IF value > min_val THEN value ELSE min_val

\* clamp(value, min_val, max_val): max(min_val, min(value, max_val))
clamp(value, min_val, max_val) ==
  LET least == IF max_val < value THEN max_val ELSE value
  IN IF least > min_val THEN least ELSE min_val

TouchAction == [Down |-> 14, Move |-> 15, Up |-> 16]
MultiTouchAction == [Down |-> 1, Move |-> 2, Up |-> 0]
LogoType == [HomeButton |-> 1, Siri |-> 2]

\* struct.pack('<f', x) of a float x that is a multiple of 1/Unit below
\* 2^14: sign, exponent and fraction of the single-precision number, least
\* significant byte first
PackF32(x) ==
  LET a == IF x < 0 THEN 0 - x ELSE x
      e == CHOOSE k \in 0..23 : 2 ^ k <= a /\ a < 2 ^ (k + 1)
      biased == 117 + e
      fraction == (a - 2 ^ e) * 2 ^ (23 - e)
  IN IF x = 0 THEN <<0, 0, 0, 0>>
     ELSE << fraction % 256, (fraction \div 256) % 256,
             (fraction \div 65536) + 128 * (biased % 2),
             (biased \div 2) + (IF x < 0 THEN 128 ELSE 0) >>

\* ndarray.tobytes() of an array of int16: two bytes for each number, least
\* significant first
tobytes(data) ==
  [j \in 1..(2 * Len(data)) |->
     LET v == data[(j + 1) \div 2]
         u == IF v < 0 THEN v + 65536 ELSE v
     IN IF j % 2 = 1 THEN u % 256 ELSE u \div 256]

\* message constructors: the fields each object keeps
SendTouch(x, y, action) ==
  [cls |-> "SendTouch", x |-> x, y |-> y, action |-> action]
SendFile(content, file_name) ==
  [cls |-> "SendFile", content |-> content, file_name |-> file_name]
SendNumber(content, file) == SendFile(PackU32(content), file)
SendBoolean(content, file) == SendNumber(IF content THEN 1 ELSE 0, file)
SendString(content, file) == SendFile(AsciiEncode(content), file)
SendCommand(value) == [cls |-> "SendCommand", value |-> CommandMapping[value]]
SendOpen(config) == [cls |-> "SendOpen", config |-> config]
SendBoxSettings(config) == [cls |-> "SendBoxSettings", config |-> config]
\* lines 100-107: a TouchItem for each item of touch_data, numbered from 0
SendMultiTouch(touch_data) ==
  [cls |-> "SendMultiTouch",
   touches |-> [j \in 1..Len(touch_data) |->
                  [x |-> touch_data[j].x, y |-> touch_data[j].y,
                   action |-> touch_data[j].action, id |-> j - 1]]]
SendAudio(data) == [cls |-> "SendAudio", data |-> data]
SendLogoType(logo_type) == [cls |-> "SendLogoType", logo_type |-> logo_type]
\* lines 239-253: the lines 'key = value' of the file, the label last when
\* the configuration has one that is not empty
SendIconConfig(config) ==
  LET line(k, v) == AsciiEncode(k) \o <<32, 61, 32>> \o v \o <<10>>
  IN SendFile(line("oemIconVisible", Digits(1))
                \o line("name", AsciiEncode("AutoBox"))
                \o line("model", AsciiEncode("Magic-Car-Link-1.00"))
                \o line("oemIconPath", AsciiEncode(FileAddress.OEM_ICON))
                \o (IF "label" \in DOMAIN config /\ config.label # ""
                      THEN line("oemIconLabel", AsciiEncode(config.label))
                      ELSE <<>>),
              FileAddress.AIRPLAY_CONFIG)
HeartBeat == [cls |-> "HeartBeat"]
SendCloseDongle == [cls |-> "SendCloseDongle"]
SendDisconnectPhone == [cls |-> "SendDisconnectPhone"]

\* the class attribute `type` of each sendable
TypeOf(message) ==
  CASE message.cls = "SendFile" -> MessageType.SendFile
    [] message.cls = "SendCommand" -> MessageType.Command
    [] message.cls = "SendOpen" -> MessageType.Open
    [] message.cls = "SendBoxSettings" -> MessageType.BoxSettings
    [] message.cls = "HeartBeat" -> MessageType.HeartBeat
    [] message.cls = "SendCloseDongle" -> MessageType.CloseDongle
    [] message.cls = "SendDisconnectPhone" -> MessageType.DisconnectPhone
    [] message.cls = "SendTouch" -> MessageType.Touch
    [] message.cls = "SendMultiTouch" -> MessageType.MultiTouch
    [] message.cls = "SendAudio" -> MessageType.AudioData
    [] message.cls = "SendLogoType" -> MessageType.LogoType

HasPayload(message) ==
  message.cls \in {"SendFile", "SendCommand", "SendOpen", "SendBoxSettings",
                   "SendTouch", "SendMultiTouch", "SendAudio",
                   "SendLogoType"}

\* get_payload of the classes derived from SendableMessageWithPayload
get_payload(message) ==
  CASE message.cls = "SendFile" ->
         PackU32(Len(message.file_name) + 1)
           \o AsciiEncode(message.file_name) \o <<0>>
           \o PackU32(Len(message.content)) \o message.content
    [] message.cls = "SendCommand" -> PackU32(message.value)
    [] message.cls = "SendOpen" ->
         PackU32(message.config.width) \o PackU32(message.config.height)
           \o PackU32(message.config.fps) \o PackU32(message.config.format)
           \o PackU32(message.config.packet_max)
           \o PackU32(message.config.i_box_version)
           \o PackU32(message.config.phone_work_mode)
    [] message.cls = "SendBoxSettings" ->
         \* json.dumps(settings).encode('ascii'), lines 213-221
         <<123>>
           \o JsonItems(<< <<"mediaDelay", message.config.media_delay>>,
                           <<"syncTime", get_current_time_in_ms>>,
                           <<"androidAutoSizeW", message.config.width>>,
                           <<"androidAutoSizeH", message.config.height>> >>)
           \o <<125>>
    [] message.cls = "SendTouch" ->
         \* int() of the clamped product drops its fraction
         PackU32(message.action)
           \o PackU32(clamp(10000 * message.x, 0, 10000 * Unit) \div Unit)
           \o PackU32(clamp(10000 * message.y, 0, 10000 * Unit) \div Unit)
           \o PackU32(0)
    [] message.cls = "SendMultiTouch" ->
         \* the 16 bytes '<ffII' of each TouchItem, joined
         [j \in 1..(16 * Len(message.touches)) |->
            LET touch == message.touches[((j - 1) \div 16) + 1]
            IN (PackF32(touch.x) \o PackF32(touch.y)
                  \o PackU32(touch.action)
                  \o PackU32(touch.id))[((j - 1) % 16) + 1]]
    [] message.cls = "SendAudio" ->
         PackU32(5) \o PackF32(0) \o PackU32(3) \o tobytes(message.data)
    [] message.cls = "SendLogoType" -> PackU32(message.logo_type)

\* serialize with a length field that counts the header as well
serialize_whole_length(message) ==
  IF HasPayload(message)
    THEN as_buffer(TypeOf(message), DATA_LENGTH + Len(get_payload(message)))
           \o get_payload(message)
    ELSE as_buffer(TypeOf(message), DATA_LENGTH)

\* SendableMessage.serialize / SendableMessageWithPayload.serialize
serialize(message) ==
  IF HasPayload(message)
    THEN as_buffer(TypeOf(message), Len(get_payload(message)))
           \o get_payload(message)
    ELSE as_buffer(TypeOf(message), 0)

(***************************************************************************)
(* dongle_driver.py: configuration                                         *)
(***************************************************************************)
\* Optional[bool]: absent is the empty tuple, present is a one-tuple
Absent == <<>>
Present(b) == <<b>>

HandDriveType == [LHD |-> 0, RHD |-> 1]

\* DongleConfig() with every default
DEFAULT_CONFIG ==
  [android_work_mode |-> Absent, width |-> 800, height |-> 640, fps |-> 20,
   dpi |-> 160, format |-> 5, i_box_version |-> 2, packet_max |-> 49152,
   phone_work_mode |-> 2, night_mode |-> FALSE, box_name |-> "nodePlay",
   hand |-> HandDriveType.LHD, media_delay |-> 300,
   audio_transfer_mode |-> FALSE, wifi_type |-> "5ghz", mic_type |-> "os"]

\* the configurations the caller passes to start
Configs ==
  { DEFAULT_CONFIG,
    [DEFAULT_CONFIG EXCEPT !.android_work_mode = Present(TRUE),
       !.night_mode = TRUE, !.hand = HandDriveType.RHD, !.dpi = 240,
       !.box_name = "carBox", !.audio_transfer_mode = TRUE,
       !.wifi_type = "2.4ghz", !.mic_type = "box"],
    [DEFAULT_CONFIG EXCEPT !.android_work_mode = Present(FALSE)] }

\* init_messages with the band command sent before wifiEnable
init_messages_band_first(config) ==
  << SendNumber(config.dpi, FileAddress.DPI),
     SendOpen(config),
     SendBoolean(config.night_mode, FileAddress.NIGHT_MODE),
     SendNumber(config.hand, FileAddress.HAND_DRIVE_MODE),
     SendBoolean(TRUE, FileAddress.CHARGE_MODE),
     SendString(config.box_name, FileAddress.BOX_NAME),
     SendBoxSettings(config),
     SendCommand(IF config.wifi_type = "5ghz" THEN "wifi5g" ELSE "wifi24g"),
     SendCommand("wifiEnable"),
     SendCommand(IF config.mic_type = "box" THEN "boxMic" ELSE "mic"),
     SendCommand(IF config.audio_transfer_mode THEN "audioTransferOn"
                                                ELSE "audioTransferOff") >>
  \o (IF config.android_work_mode # Absent
        THEN << SendBoolean(config.android_work_mode[1],
                            FileAddress.ANDROID_WORK_MODE) >>
        ELSE << >>)

\* init_messages of DongleDriver.start, in the order they are sent
init_messages(config) ==
  << SendNumber(config.dpi, FileAddress.DPI),
     SendOpen(config),
     SendBoolean(config.night_mode, FileAddress.NIGHT_MODE),
     SendNumber(config.hand, FileAddress.HAND_DRIVE_MODE),
     SendBoolean(TRUE, FileAddress.CHARGE_MODE),
     SendString(config.box_name, FileAddress.BOX_NAME),
     SendBoxSettings(config),
     SendCommand("wifiEnable"),
     SendCommand(IF config.wifi_type = "5ghz" THEN "wifi5g" ELSE "wifi24g"),
     SendCommand(IF config.mic_type = "box" THEN "boxMic" ELSE "mic"),
     SendCommand(IF config.audio_transfer_mode THEN "audioTransferOn"
                                                ELSE "audioTransferOff") >>
  \o (IF config.android_work_mode # Absent
        THEN << SendBoolean(config.android_work_mode[1],
                            FileAddress.ANDROID_WORK_MODE) >>
        ELSE << >>)

(***************************************************************************)
(* readable.py / MessageHeader.to_message                                  *)
(***************************************************************************)
PhoneTypeCodes == {1, 3, 4, 5, 6}

\* the message classes whose payload is data.decode('ascii')
AsciiClasses ==
  {MessageType.BluetoothAddress, MessageType.BluetoothPIN,
   MessageType.BluetoothDeviceName, MessageType.WifiDeviceName,
   MessageType.HiCarLink, MessageType.BluetoothPairedList,
   MessageType.SoftwareVersion}

\* the keys of message_map (lines 187-204)
MessageMapKeys ==
  {MessageType.Command, MessageType.Phase, MessageType.ManufacturerInfo,
   MessageType.Open, MessageType.Plugged, MessageType.BoxSettings,
   MessageType.AudioData, MessageType.VideoData, MessageType.MediaData}
    \cup AsciiClasses

\* the item of a string at position i, or -1 beyond its end
At(s, i) == IF i \in 1..Len(s) THEN s[i] ELSE -1

\* data.decode('utf-8'): the code points of the bytes, or the
\* UnicodeDecodeError of a byte sequence that is not UTF-8.  A byte outside
\* 128..191 begins a code point, and the text is well formed when every such
\* byte is followed by the continuation bytes of its length and then by the
\* next one or by the end
Utf8Decode(data) ==
  LET lead(i) == data[i] \notin 128..191
      n(i) == IF data[i] < 128 THEN 1
              ELSE IF data[i] \in 194..223 THEN 2
              ELSE IF data[i] \in 224..239 THEN 3
              ELSE IF data[i] \in 240..244 THEN 4
              ELSE 0
      \* the second byte excludes overlong forms, surrogates and code
      \* points above U+10FFFF
      second(i) == IF data[i] = 224 THEN 160..191
                   ELSE IF data[i] = 237 THEN 128..159
                   ELSE IF data[i] = 240 THEN 144..191
                   ELSE IF data[i] = 244 THEN 128..143
                   ELSE 128..191
      wellformed(i) ==
        /\ n(i) > 0 /\ i + n(i) - 1 <= Len(data)
        /\ n(i) > 1 => data[i + 1] \in second(i)
        /\ \A j \in (i + 2)..(i + n(i) - 1) : data[j] \in 128..191
        /\ i + n(i) <= Len(data) => lead(i + n(i))
      point(i) ==
        IF n(i) = 1 THEN data[i]
        ELSE IF n(i) = 2 THEN (data[i] % 32) * 64 + (data[i + 1] % 64)
        ELSE IF n(i) = 3
          THEN (data[i] % 16) * 4096 + (data[i + 1] % 64) * 64
                 + (data[i + 2] % 64)
        ELSE (data[i] % 8) * 262144 + (data[i + 1] % 64) * 4096
               + (data[i + 2] % 64) * 64 + (data[i + 3] % 64)
      leads == SelectSeq([i \in 1..Len(data) |-> i], lead)
  IN IF /\ data # <<>> => lead(1)
        /\ \A k \in 1..Len(leads) : wellformed(leads[k])
       THEN [ok |-> TRUE, s |-> [k \in 1..Len(leads) |-> point(leads[k])]]
       ELSE [ok |-> FALSE, s |-> <<>>]

\* json.loads raises (JSONDecodeError, or UnicodeDecodeError from decode)
JsonError == [ok |-> FALSE, val |-> 0, pos |-> 0]

\* the position after the whitespace ' \t\n\r' that begins at position i
JsonWs(s, i) ==
  IF i > Len(s) THEN i
  ELSE CHOOSE j \in i..(Len(s) + 1) :
         /\ At(s, j) \notin {32, 9, 10, 13}
         /\ \A k \in i..(j - 1) : s[k] \in {32, 9, 10, 13}

\* the position after the digits that begin at position i
SkipDigits(data, i) ==
  IF i > Len(data) THEN i
  ELSE CHOOSE j \in i..(Len(data) + 1) :
         /\ At(data, j) \notin 48..57
         /\ \A k \in i..(j - 1) : data[k] \in 48..57

RECURSIVE Number(_)
\* int of a string of digits
Number(ds) ==
  IF ds = <<>> THEN 0
  ELSE 10 * Number(SubSeq(ds, 1, Len(ds) - 1)) + (ds[Len(ds)] - 48)

\* the value of a hexadecimal digit, or -1
HexValue(c) ==
  IF c \in 48..57 THEN c - 48
  ELSE IF c \in 65..70 THEN c - 55
  ELSE IF c \in 97..102 THEN c - 87
  ELSE -1

\* the code unit of the four hexadecimal digits at position i, or -1
HexUnit(s, i) ==
  IF \A j \in 0..3 : HexValue(At(s, i + j)) >= 0
    THEN HexValue(s[i]) * 4096 + HexValue(s[i + 1]) * 256
           + HexValue(s[i + 2]) * 16 + HexValue(s[i + 3])
    ELSE -1

RECURSIVE JsonString(_, _, _)
\* the string whose opening '"' is before position i, read up to its closing
\* '"' a chunk at a time, a chunk ending at a '"', a backslash or a control
\* character: escapes are replaced, a surrogate pair of \u escapes is one
\* code point, and a control character, an unknown escape or the end of the
\* text raises
JsonString(s, i, acc) ==
  LET stop(j) == At(s, j) < 32 \/ At(s, j) \in {34, 92}
      \* the chunk ends before position end, which holds c
      Chunk(end, c, e) ==
        LET content == acc \o SubSeq(s, i, end - 1)
            simple == CASE e = 34 -> 34 [] e = 92 -> 92 [] e = 47 -> 47
                        [] e = 98 -> 8 [] e = 102 -> 12 [] e = 110 -> 10
                        [] e = 114 -> 13 [] e = 116 -> 9 [] OTHER -> -1
            u == HexUnit(s, end + 2)
            low == IF At(s, end + 6) = 92 /\ At(s, end + 7) = 117
                     THEN HexUnit(s, end + 8) ELSE -1
        IN IF c < 32 THEN JsonError
           ELSE IF c = 34
             THEN [ok |-> TRUE, val |-> content, pos |-> end + 1]
           ELSE IF simple >= 0
             THEN JsonString(s, end + 2, Append(content, simple))
           ELSE IF e # 117 \/ u < 0 THEN JsonError
           ELSE IF u \in 55296..56319 /\ low \in 56320..57343
             THEN JsonString(s, end + 12,
                    Append(content,
                           65536 + (u - 55296) * 1024 + (low - 56320)))
           ELSE JsonString(s, end + 6, Append(content, u))
      To(end) == Chunk(end, At(s, end), At(s, end + 1))
  IN To(IF i > Len(s) THEN i
        ELSE CHOOSE j \in i..(Len(s) + 1) :
               stop(j) /\ \A k \in i..(j - 1) : ~stop(k))

\* the number that begins at position i: -?(0|[1-9][0-9]*), a fraction
\* '.' digits and an exponent [eE][+-]? digits when they are complete.  An
\* int whose digits are at most 2147483647 is held as its value, a larger
\* one and a float as the text of the literal
JsonNumber(s, i) ==
  LET \* the digits of the int are d..int_end - 1, the literal ends before end
      Made(d, int_end, end) ==
        IF int_end = d THEN JsonError
        ELSE IF end > int_end
          THEN [ok |-> TRUE, val |-> [float |-> SubSeq(s, i, end - 1)],
                pos |-> end]
        \* int() refuses more than 4300 digits with a ValueError
        ELSE IF int_end - d > 4300 THEN JsonError
        ELSE IF \/ int_end - d > 10
                \/ /\ int_end - d = 10
                   /\ \/ Number(SubSeq(s, d, int_end - 2)) > 214748364
                      \/ /\ Number(SubSeq(s, d, int_end - 2)) = 214748364
                         /\ s[int_end - 1] > 55
          THEN [ok |-> TRUE, val |-> [int |-> SubSeq(s, i, end - 1)],
                pos |-> end]
        ELSE [ok |-> TRUE,
              val |-> IF d > i THEN 0 - Number(SubSeq(s, d, int_end - 1))
                               ELSE Number(SubSeq(s, d, int_end - 1)),
              pos |-> end]
      Exponent(d, int_end, frac_end, x) ==
        Made(d, int_end,
             IF At(s, frac_end) \in {69, 101} /\ At(s, x) \in 48..57
               THEN SkipDigits(s, x) ELSE frac_end)
      Fraction(d, int_end, frac_end) ==
        Exponent(d, int_end, frac_end,
                 IF At(s, frac_end + 1) \in {43, 45} THEN frac_end + 2
                                                      ELSE frac_end + 1)
      IntPart(d, int_end) ==
        Fraction(d, int_end,
                 IF At(s, int_end) = 46 /\ At(s, int_end + 1) \in 48..57
                   THEN SkipDigits(s, int_end + 1) ELSE int_end)
      Sign(d) == IntPart(d, IF At(s, d) = 48 THEN d + 1 ELSE SkipDigits(s, d))
  IN Sign(IF At(s, i) = 45 THEN i + 1 ELSE i)

\* dict item assignment: the value of a key that is present is replaced
\* where it stands, a new key goes to the end
SetItem(items, key, value) ==
  IF \E j \in 1..Len(items) : items[j][1] = key
    THEN [j \in 1..Len(items) |->
            IF items[j][1] = key THEN <<key, value>> ELSE items[j]]
    ELSE Append(items, <<key, value>>)

\* the literal is at position i
Literal(s, i, text) ==
  i + Len(text) - 1 <= Len(s) /\ SubSeq(s, i, i + Len(text) - 1) = text

RECURSIVE JsonValue(_, _)
RECURSIVE JsonMembers(_, _, _)
RECURSIVE JsonElements(_, _, _)
\* the value that begins at position i.  An object is the sequence of its
\* <<key, value>> items, a key the code points of the string; an array, a
\* string and null are marked as such.  (The RecursionError of a nesting
\* deeper than the interpreter allows depends on the depth of the calls
\* around json.loads and is left out)
JsonValue(s, i) ==
  LET c == At(s, i)
      String(str) ==
        IF str.ok THEN [str EXCEPT !.val = [string |-> @]] ELSE JsonError
      Object(after) ==
        IF At(s, after) = 125
          THEN [ok |-> TRUE, val |-> <<>>, pos |-> after + 1]
          ELSE JsonMembers(s, after, <<>>)
      Array(after) ==
        IF At(s, after) = 93
          THEN [ok |-> TRUE, val |-> [array |-> <<>>], pos |-> after + 1]
          ELSE JsonElements(s, after, <<>>)
  IN CASE c = 34 -> String(JsonString(s, i + 1, <<>>))
       [] c = 123 -> Object(JsonWs(s, i + 1))
       [] c = 91 -> Array(JsonWs(s, i + 1))
       [] c = 110 /\ Literal(s, i, <<110, 117, 108, 108>>) ->
            [ok |-> TRUE, val |-> [null |-> TRUE], pos |-> i + 4]
       [] c = 116 /\ Literal(s, i, <<116, 114, 117, 101>>) ->
            [ok |-> TRUE, val |-> TRUE, pos |-> i + 4]
       [] c = 102 /\ Literal(s, i, <<102, 97, 108, 115, 101>>) ->
            [ok |-> TRUE, val |-> FALSE, pos |-> i + 5]
       [] c = 78 /\ Literal(s, i, <<78, 97, 78>>) ->
            [ok |-> TRUE, val |-> [float |-> SubSeq(s, i, i + 2)],
             pos |-> i + 3]
       [] c = 73 /\ Literal(s, i, <<73, 110, 102, 105, 110, 105, 116, 121>>) ->
            [ok |-> TRUE, val |-> [float |-> SubSeq(s, i, i + 7)],
             pos |-> i + 8]
       [] c = 45
          /\ Literal(s, i, <<45, 73, 110, 102, 105, 110, 105, 116, 121>>) ->
            [ok |-> TRUE, val |-> [float |-> SubSeq(s, i, i + 8)],
             pos |-> i + 9]
       [] OTHER ->
            IF c = 45 \/ c \in 48..57 THEN JsonNumber(s, i) ELSE JsonError

\* the members of an object from the key at position i to the closing brace:
\* the key, the colon, the value, and then the brace or a comma and the
\* members that follow
JsonMembers(s, i, items) ==
  LET Following(set, next) ==
        IF At(s, next) = 125
          THEN [ok |-> TRUE, val |-> set, pos |-> next + 1]
        ELSE IF At(s, next) = 44
          THEN JsonMembers(s, JsonWs(s, next + 1), set)
        ELSE JsonError
      Value(key, value) ==
        IF ~value.ok THEN JsonError
        ELSE Following(SetItem(items, key.val, value.val), JsonWs(s, value.pos))
      Colon(key, colon) ==
        IF At(s, colon) # 58 THEN JsonError
        ELSE Value(key, JsonValue(s, JsonWs(s, colon + 1)))
      Key(key) ==
        IF ~key.ok THEN JsonError ELSE Colon(key, JsonWs(s, key.pos))
  IN IF At(s, i) # 34 THEN JsonError
     ELSE Key(JsonString(s, i + 1, <<>>))

\* the elements of an array from the value at position i to the closing
\* bracket
JsonElements(s, i, values) ==
  LET Following(list, next) ==
        IF At(s, next) = 93
          THEN [ok |-> TRUE, val |-> [array |-> list], pos |-> next + 1]
        ELSE IF At(s, next) = 44
          THEN JsonElements(s, JsonWs(s, next + 1), list)
        ELSE JsonError
      Value(value) ==
        IF ~value.ok THEN JsonError
        ELSE Following(Append(values, value.val), JsonWs(s, value.pos))
  IN Value(JsonValue(s, i))

\* json.loads(data.decode('utf-8')): one value with whitespace around it;
\* a byte order mark, no value or text after the value raises
JsonLoads(data) ==
  LET Value(s, value) ==
        IF ~value.ok THEN JsonError
        ELSE IF JsonWs(s, value.pos) # Len(s) + 1 THEN JsonError
        ELSE value
      Text(text) ==
        IF ~text.ok \/ At(text.s, 1) = 65279 THEN JsonError
        ELSE Value(text.s, JsonValue(text.s, JsonWs(text.s, 1)))
  IN Text(Utf8Decode(data))

\* None where a number or a sequence may stand as well
None == [null |-> TRUE]

\* struct.unpack('<f', b)[0] on a four-byte string: the float
\* (-1)^sign * significand * 2^exponent, an infinity or a NaN
UnpackF32(b) ==
  LET sign == b[4] \div 128
      biased == (b[4] % 128) * 2 + b[3] \div 128
      fraction == (b[3] % 128) * 65536 + b[2] * 256 + b[1]
  IN IF biased = 255
       THEN IF fraction = 0 THEN [sign |-> sign, inf |-> TRUE]
                            ELSE [nan |-> TRUE]
     ELSE IF biased = 0
       THEN [sign |-> sign, significand |-> fraction, exponent |-> -149]
     ELSE [sign |-> sign, significand |-> 8388608 + fraction,
           exponent |-> biased - 150]

\* np.frombuffer(b, dtype=np.int16) on a string of even length: the signed
\* 16-bit numbers, least significant byte first
FromBufferInt16(b) ==
  [j \in 1..(Len(b) \div 2) |->
     LET u == b[2 * j - 1] + 256 * b[2 * j]
     IN IF u >= 32768 THEN u - 65536 ELSE u]

\* base64.b64encode(b).decode('ascii'): four characters for every three
\* bytes, the last group filled with '='
b64encode(b) ==
  LET byte(k) == IF k <= Len(b) THEN b[k] ELSE 0
      letter(v) == IF v < 26 THEN 65 + v
                   ELSE IF v < 52 THEN 71 + v
                   ELSE IF v < 62 THEN v - 4
                   ELSE IF v = 62 THEN 43 ELSE 47
      character(g, k) ==
        LET v == byte(3 * g + 1) * 65536 + byte(3 * g + 2) * 256
                   + byte(3 * g + 3)
        IN IF k = 3 /\ 3 * g + 2 > Len(b) THEN 61
           ELSE IF k = 4 /\ 3 * g + 3 > Len(b) THEN 61
           ELSE IF k = 1 THEN letter(v \div 262144)
           ELSE IF k = 2 THEN letter((v \div 4096) % 64)
           ELSE IF k = 3 THEN letter((v \div 64) % 64)
           ELSE letter(v % 64)
  IN [j \in 1..(4 * ((Len(b) + 2) \div 3)) |->
        character((j - 1) \div 4, ((j - 1) % 4) + 1)]

\* the values of AudioCommand and of MediaType
AudioCommandCodes == 1..13
MediaType == [Data |-> 1, AlbumCover |-> 3]

NoMessage == [kind |-> "none", type |-> 0, fields |-> <<>>]
Raised == [kind |-> "raise", type |-> 0, fields |-> <<>>]
Decoded(t, fields) == [kind |-> "message", type |-> t, fields |-> fields]

\* struct.unpack('<I', data[lo:lo+4]) succeeds only on four bytes
CanUnpack(data, lo) == Len(data) >= lo + 4
\* the field read most significant byte first
FieldBigEndian(data, lo) ==
  LET b == Slice(data, lo, lo + 4)
  IN UnpackU32(<<b[4], b[3], b[2], b[1]>>)

Field(data, lo) == UnpackU32(Slice(data, lo, lo + 4))

\* MessageHeader.to_message(data): the message built, None, or an exception
\* raised by the message constructor
to_message(h, data) ==
  IF ~h.known THEN NoMessage
  ELSE IF Len(data) > 0 THEN
    CASE h.type = MessageType.Command ->
           IF ~CanUnpack(data, 0) THEN Raised
           ELSE IF Field(data, 0) \notin CommandCodes THEN Raised
           ELSE Decoded(h.type, <<Field(data, 0)>>)
      [] h.type = MessageType.Phase ->
           IF ~CanUnpack(data, 0) THEN Raised
           ELSE Decoded(h.type, <<Field(data, 0)>>)
      [] h.type = MessageType.ManufacturerInfo ->
           IF ~CanUnpack(data, 4) THEN Raised
           ELSE Decoded(h.type, <<Field(data, 0), Field(data, 4)>>)
      [] h.type = MessageType.Open ->
           IF ~CanUnpack(data, 24) THEN Raised
           ELSE Decoded(h.type,
                  [j \in 1..7 |-> Field(data, 4 * (j - 1))])
      [] h.type = MessageType.Plugged ->
           IF ~CanUnpack(data, 0) THEN Raised
           ELSE IF Field(data, 0) \notin PhoneTypeCodes THEN Raised
           ELSE IF Len(data) = 8
             THEN Decoded(h.type, <<Field(data, 0), Field(data, 4)>>)
             ELSE Decoded(h.type, <<Field(data, 0)>>)
      [] h.type = MessageType.AudioData ->
           \* readable.py 99-118: three fields, and then a command in one
           \* signed byte, a duration in four bytes or the samples
           LET amount == Len(data) - 12
               command == IF data[13] >= 128 THEN data[13] - 256
                                             ELSE data[13]
               audio(command_, volume_duration, samples) ==
                 Decoded(h.type,
                         [decode_type |-> Field(data, 0),
                          volume |-> UnpackF32(Slice(data, 4, 8)),
                          audio_type |-> Field(data, 8),
                          command |-> command_,
                          volume_duration |-> volume_duration,
                          data |-> samples])
           IN IF ~CanUnpack(data, 8) THEN Raised
              ELSE IF amount = 1
                THEN IF command \notin AudioCommandCodes THEN Raised
                     ELSE audio(command, None, None)
              ELSE IF amount = 4
                THEN audio(None, UnpackF32(Slice(data, 12, 16)), None)
              ELSE IF amount % 2 = 1 THEN Raised
              ELSE audio(None, None,
                         FromBufferInt16(Slice(data, 12, Len(data))))
      [] h.type = MessageType.VideoData ->
           \* readable.py 121-129
           IF ~CanUnpack(data, 16) THEN Raised
           ELSE Decoded(h.type,
                        [width |-> Field(data, 0), height |-> Field(data, 4),
                         flags |-> Field(data, 8), length |-> Field(data, 12),
                         unknown |-> Field(data, 16),
                         data |-> Slice(data, 20, Len(data))])
      [] h.type = MessageType.MediaData ->
           \* readable.py 137-158: the payload of an album cover, of media
           \* data (data[4:-1] read as JSON), or none
           LET media(loaded) ==
                 IF ~loaded.ok THEN Raised
                 ELSE Decoded(h.type,
                              [payload |-> [type |-> MediaType.Data,
                                            media |-> loaded.val]])
           IN IF ~CanUnpack(data, 0) THEN Raised
              ELSE IF Field(data, 0) = MediaType.AlbumCover
                THEN Decoded(h.type,
                       [payload |->
                          [type |-> MediaType.AlbumCover,
                           base64Image |->
                             b64encode(Slice(data, 4, Len(data)))]])
              ELSE IF Field(data, 0) = MediaType.Data
                THEN media(JsonLoads(Slice(data, 4, Len(data) - 1)))
              ELSE Decoded(h.type, [payload |-> None])
      [] h.type = MessageType.BoxSettings ->
           LET settings(loaded) ==
                 IF ~loaded.ok THEN Raised ELSE Decoded(h.type, loaded.val)
           IN settings(JsonLoads(data))
      [] h.type \in AsciiClasses ->
           IF \E j \in 1..Len(data) : data[j] > 127 THEN Raised
           ELSE Decoded(h.type, data)
      [] h.type \notin MessageMapKeys -> NoMessage
  ELSE IF h.type = MessageType.Unplugged THEN Decoded(h.type, <<>>)
  ELSE NoMessage

(***************************************************************************)
(* dongle_driver.py: the threads                                           *)
(***************************************************************************)
Callers == {<<"caller", 1>>}
\* a second thread of the application, which only calls close
Closers == {<<"closer", 1>>}
ReadThreads == {<<"read", k>> : k \in 1..MaxStarts}
HeartbeatThreads == {<<"heartbeat", k>> : k \in 1..MaxStarts}
Threads == ReadThreads \cup HeartbeatThreads
Procs == Callers \cup Closers \cup Threads
NoThread == <<"none", 0>>

\* the 16-byte (or shorter) chunks a header read returns
InHeaders ==
  { as_buffer(MessageType.Command, 4),
    as_buffer(MessageType.Plugged, 4),
    as_buffer(MessageType.Unplugged, 0),
    as_buffer(MessageType.Open, 0),
    as_buffer(119, 2),
    <<0, 0, 0, 0, 0, 0, 0, 0, 0, 0, 0, 0, 0, 0, 0, 0>>,
    <<170, 85, 170, 85>>,
    PackU32(MAGIC) \o PackU32(0) \o PackU32(8) \o PackU32(8) }

\* the payloads a payload read returns for a header
InPayloads(h) ==
  IF h.type = MessageType.Command
    THEN {PackU32(CommandMapping.wifiConnect), PackU32(9999), <<1, 2>>}
  ELSE IF h.type = MessageType.Plugged
    THEN {PackU32(3), PackU32(2)}
    ELSE {[j \in 1..h.length |-> 7]}

VARIABLES
  device,             \* self._device: "None" or "dev"
  in_ep,              \* self._in_ep: "None" or "in"
  out_ep,             \* self._out_ep: "None" or "out"
  error_count,        \* self.error_count
  running,            \* self._running
  heartbeat_running,  \* self._heartbeat_running
  read_thread,        \* self._read_thread
  heartbeat_thread,   \* self._heartbeat_thread
  pc,                 \* where each thread is in its code
  retpc,              \* where a thread continues when send/close returns
  message,            \* the argument of the send a thread is in
  target,             \* the thread a close is joining
  config,             \* the DongleConfig the caller passes to start
  idx,                \* position of start in init_messages
  tid,                \* number of the thread pair a start creates
  dev_kind,           \* the device given to the caller's initialize
  result,             \* what the caller's last call returned or raised
  header,             \* the header a read thread has parsed
  loaded,             \* error_count as loaded by `self.error_count += 1`
  reading,            \* the size of the read a thread has asked of the IN
                      \* endpoint (0: it is in no read)
  extra_data,         \* the payload a read thread has read (<<>>: None)
  read_error,         \* how the last read of a read thread on the IN endpoint
                      \* ended without data ("none": it did not)
  out,                \* the write calls the OUT endpoint has received
  events,             \* the events emitted to the registered sinks
  nstart, ninit, nsend, nclose,
  _events,            \* self._events: the listeners of each event, in the
                      \* order of their registration
  emit_state,         \* "idle", "dispatching" (a call of emit is in its
                      \* loop), "returned" or "raised" (how the last one ended)
  emit_event,         \* the event of the current or last call of emit
  emit_pos,           \* the number of listeners the loop of emit has taken
  emit_list,          \* the list object the loop of emit is over: held
                      \* (self._events still holds it under the event) or
                      \* not, and then its items
  invoked,            \* the listeners the current or last emit has invoked
  registered,         \* the listeners of the event when that emit began
  removed,            \* the listeners remove_listener and
                      \* remove_all_listeners have removed from the list of
                      \* the event while that emit was dispatching
  buffer,             \* the bytes the last call of as_buffer or serialize
                      \* returned, as the dongle or the line has left them
  made,               \* that call and its arguments, and whether the bytes
                      \* were altered since
  parsed,             \* what from_buffer made of the bytes
  decoded,            \* what to_message made of the payload
  send_callback,      \* TouchHandler.send_callback: "None" or "callback"
  touch_active,       \* TouchHandler.touch_active
  last_touch_pos,     \* TouchHandler.last_touch_pos: <<>> (None) or <<x, y>>
  video_size,         \* TouchHandler.video_size: <<>> (None) or <<w, h>>
  display_size,       \* TouchHandler.display_size: <<>> (None) or <<w, h>>
  display_offset,     \* TouchHandler.display_offset: <<>> (None) or <<x, y>>
  sent,               \* the calls send_callback has received
  direct,             \* whether the application has called send_touch of
                      \* the TouchHandler itself, and not only its handlers
  touch_call          \* the last call on the TouchHandler, with its
                      \* arguments and what it returned

drv ==
  <<device, in_ep, out_ep, error_count, running, heartbeat_running,
    read_thread, heartbeat_thread>>
emitter ==
  <<_events, emit_state, emit_event, emit_pos, emit_list, invoked, registered,
    removed>>
\* what the application hands to the driver: the configuration of start and
\* the listeners
wire == <<buffer, made, parsed, decoded>>
touch ==
  <<send_callback, touch_active, last_touch_pos, video_size, display_size,
    display_offset, sent, direct, touch_call>>
app == <<config, emitter, wire, touch>>
args == <<app, idx, tid, dev_kind, result>>
rd == <<header, loaded, reading, extra_data, read_error>>
hist == <<out, events>>
counts == <<nstart, ninit, nsend, nclose>>
vars == <<drv, pc, retpc, message, target, args, rd, hist, counts>>

NoHeader == [ok |-> FALSE, error |-> "", length |-> 0, type |-> 0,
             known |-> FALSE]
NoArg == [cls |-> "none"]

\* from_buffer and to_message have not been applied to the bytes
NotParsed == [ok |-> FALSE, error |-> "not parsed", length |-> 0, type |-> 0,
              known |-> FALSE]
NotDecoded == [kind |-> "not decoded", type |-> 0, fields |-> <<>>]

Init ==
  /\ device = "None" /\ in_ep = "None" /\ out_ep = "None"
  /\ error_count = 0 /\ running = FALSE /\ heartbeat_running = FALSE
  /\ read_thread = NoThread /\ heartbeat_thread = NoThread
  /\ pc = [p \in Procs |-> IF p \in Threads THEN "unborn" ELSE "idle"]
  /\ retpc = [p \in Procs |-> "none"]
  /\ message = [p \in Procs |-> HeartBeat]
  /\ target = [p \in Procs |-> NoThread]
  /\ config \in Configs
  /\ idx = [c \in Callers |-> 0]
  /\ tid = [c \in Callers |-> 0]
  /\ dev_kind = [c \in Callers |-> "ok"]
  /\ result = [c \in Callers \cup Closers |-> [op |-> "none", val |-> "None"]]
  /\ header = [r \in ReadThreads |-> NoHeader]
  /\ loaded = [r \in ReadThreads |-> 0]
  /\ reading = [r \in ReadThreads |-> 0]
  /\ extra_data = [r \in ReadThreads |-> <<>>]
  /\ read_error = [r \in ReadThreads |-> "none"]
  /\ out = <<>> /\ events = <<>>
  /\ nstart = 0 /\ ninit = 0 /\ nsend = 0 /\ nclose = 0
  /\ _events = [event \in {} |-> <<>>]
  /\ emit_state = "idle" /\ emit_event = "" /\ emit_pos = 0
  /\ emit_list = [held |-> TRUE, items |-> <<>>]
  /\ invoked = <<>> /\ registered = <<>> /\ removed = {}
  /\ buffer = <<>>
  /\ made = [op |-> "none", type |-> 0, length |-> 0, message |-> NoArg,
             altered |-> 0]
  /\ parsed = NotParsed /\ decoded = NotDecoded
  \* video_viewer_modular.py:78: TouchHandler(send_callback=...)
  /\ send_callback = "callback" /\ touch_active = FALSE
  /\ last_touch_pos = <<>>
  /\ video_size = <<>> /\ display_size = <<>> /\ display_offset = <<>>
  /\ sent = <<>>
  /\ direct = FALSE
  /\ touch_call = [op |-> "__init__", x |-> 0, y |-> 0, ret |-> "None"]

\* a thread that has been started and has not ended
Alive(t) == pc[t] \notin {"unborn", "created", "done", "dead"}

(***************************************************************************)
(* The caller: one thread that calls initialize, start, send and close,    *)
(* one call at a time.                                                     *)
(***************************************************************************)
CallInitialize(c, kind) ==
  /\ pc[c] = "idle" /\ ninit < MaxInits
  /\ pc' = [pc EXCEPT ![c] = "init_check"]
  /\ dev_kind' = [dev_kind EXCEPT ![c] = kind]
  /\ UNCHANGED <<drv, retpc, message, target, app, idx, tid, result, rd,
                 hist, counts>>

\* a caller that initializes the session once, with a good device
CallInitializeOnce(c) ==
  /\ ninit = 0
  /\ CallInitialize(c, "ok")

CallStart(c) ==
  /\ pc[c] = "idle"
  /\ nstart < MaxStarts \/ device = "None"
  /\ pc' = [pc EXCEPT ![c] = "start_check"]
  /\ UNCHANGED <<drv, retpc, message, target, args, rd, hist, counts>>

CallSend(c, m) ==
  /\ pc[c] = "idle" /\ nsend < MaxSends
  /\ pc' = [pc EXCEPT ![c] = "send_check"]
  /\ retpc' = [retpc EXCEPT ![c] = "idle"]
  /\ message' = [message EXCEPT ![c] = m]
  /\ nsend' = nsend + 1
  /\ UNCHANGED <<drv, target, args, rd, hist, nstart, ninit, nclose>>

CallClose(c) ==
  /\ pc[c] = "idle"
  /\ c \in Closers => nclose < MaxCloses
  /\ pc' = [pc EXCEPT ![c] = "close_check"]
  /\ retpc' = [retpc EXCEPT ![c] = "idle"]
  /\ nclose' = IF c \in Closers THEN nclose + 1 ELSE nclose
  /\ UNCHANGED <<drv, message, target, args, rd, hist, nstart, ninit, nsend>>

\* a caller that runs one session: further start calls find no device
CallStartOnce(c) ==
  /\ nstart = 0 \/ device = "None"
  /\ CallStart(c)

\* the messages the caller sends on its own
CallerMessages == {SendCommand("frame")}

(***************************************************************************)
(* DongleDriver.initialize                                                 *)
(***************************************************************************)
\* the exception initialize raises for a device
InitError(kind) ==
  IF kind = "set_configuration_fails" THEN "USBError" ELSE "DriverStateError"

\* initialize without the check of lines 126-127
InitCheckMissing(c) ==
  /\ pc[c] = "init_check"
  /\ device' = "dev"
  /\ ninit' = ninit + 1
  /\ pc' = [pc EXCEPT ![c] = "init_config"]
  /\ UNCHANGED <<in_ep, out_ep, error_count, running, heartbeat_running,
                 read_thread, heartbeat_thread, retpc, message, target,
                 app, idx, tid, dev_kind, result, rd, hist, nstart, nsend,
                 nclose>>

\* lines 126-130: return if a device is set, else keep the device
InitCheck(c) ==
  /\ pc[c] = "init_check"
  /\ IF device # "None"
       THEN /\ pc' = [pc EXCEPT ![c] = "idle"]
            /\ result' = [result EXCEPT ![c] = [op |-> "initialize",
                                                val |-> "None"]]
            /\ dev_kind' = [dev_kind EXCEPT ![c] = "ok"]
            /\ UNCHANGED <<device, ninit>>
       ELSE /\ device' = "dev"
            /\ ninit' = ninit + 1
            /\ pc' = [pc EXCEPT ![c] = "init_config"]
            /\ UNCHANGED <<result, dev_kind>>
  /\ UNCHANGED <<in_ep, out_ep, error_count, running, heartbeat_running,
                 read_thread, heartbeat_thread, retpc, message, target,
                 app, idx, tid, rd, hist, nstart, nsend, nclose>>

\* initialize raising without the close of line 165
InitConfigNoClose(c) ==
  /\ pc[c] = "init_config"
  /\ IF dev_kind[c] = "ok"
       THEN /\ pc' = [pc EXCEPT ![c] = "init_in_ep"]
            /\ UNCHANGED <<result, dev_kind>>
       ELSE /\ pc' = [pc EXCEPT ![c] = "idle"]
            /\ result' = [result EXCEPT ![c] = [op |-> "initialize",
                                                val |-> InitError(dev_kind[c])]]
            /\ dev_kind' = [dev_kind EXCEPT ![c] = "ok"]
  /\ UNCHANGED <<drv, retpc, message, target, app, idx, tid, rd, hist,
                 counts>>

\* lines 134-157, and line 165 when they raise.  Line 134 reads self._device
\* for set_configuration and line 135 reads it again for
\* get_active_configuration: on None, which a close in another thread has
\* stored, the call raises AttributeError
InitConfig(c) ==
  /\ pc[c] \in {"init_config", "init_get_config"}
  /\ IF device = "None"
       THEN /\ pc' = [pc EXCEPT ![c] = "close_check"]
            /\ retpc' = [retpc EXCEPT ![c] = "init_raise_attribute"]
     ELSE IF pc[c] = "init_config"
       THEN \* line 134
            IF dev_kind[c] = "set_configuration_fails"
              THEN /\ pc' = [pc EXCEPT ![c] = "close_check"]
                   /\ retpc' = [retpc EXCEPT ![c] = "init_raise"]
              ELSE /\ pc' = [pc EXCEPT ![c] = "init_get_config"]
                   /\ UNCHANGED retpc
     ELSE \* lines 135-157
          IF dev_kind[c] = "ok"
            THEN /\ pc' = [pc EXCEPT ![c] = "init_in_ep"]
                 /\ UNCHANGED retpc
            ELSE /\ pc' = [pc EXCEPT ![c] = "close_check"]
                 /\ retpc' = [retpc EXCEPT ![c] = "init_raise"]
  /\ UNCHANGED <<drv, message, target, args, rd, hist, counts>>

\* line 159
InitInEp(c) ==
  /\ pc[c] = "init_in_ep"
  /\ in_ep' = "in"
  /\ pc' = [pc EXCEPT ![c] = "init_out_ep"]
  /\ UNCHANGED <<device, out_ep, error_count, running, heartbeat_running,
                 read_thread, heartbeat_thread, retpc, message, target, args,
                 rd, hist, counts>>

\* line 160
InitOutEp(c) ==
  /\ pc[c] = "init_out_ep"
  /\ out_ep' = "out"
  /\ pc' = [pc EXCEPT ![c] = "idle"]
  /\ result' = [result EXCEPT ![c] = [op |-> "initialize", val |-> "None"]]
  /\ UNCHANGED <<device, in_ep, error_count, running, heartbeat_running,
                 read_thread, heartbeat_thread, retpc, message, target,
                 app, idx, tid, dev_kind, rd, hist, counts>>

(***************************************************************************)
(* DongleDriver.send, run by the caller, by start and by a heartbeat       *)
(* thread                                                                  *)
(***************************************************************************)
\* send whose False or None ends the start that called it
SendReturnChecked(p, val, wrote) ==
  CASE retpc[p] = "idle" ->
         /\ pc' = [pc EXCEPT ![p] = "idle"]
         /\ retpc' = [retpc EXCEPT ![p] = "none"]
         /\ message' = [message EXCEPT ![p] = NoArg]
         /\ result' = [result EXCEPT ![p] = [op |-> "send", val |-> val,
                                             wrote |-> wrote]]
         /\ UNCHANGED idx
    [] retpc[p] \in {"start_burst", "start_read_thread"} /\ val # "True" ->
         /\ pc' = [pc EXCEPT ![p] = "idle"]
         /\ retpc' = [retpc EXCEPT ![p] = "none"]
         /\ message' = [message EXCEPT ![p] = NoArg]
         /\ idx' = [idx EXCEPT ![p] = 0]
         /\ result' = [result EXCEPT ![p] = [op |-> "start",
                                             val |-> "DriverStateError"]]
    [] retpc[p] = "start_burst" /\ val = "True" ->
         /\ pc' = [pc EXCEPT ![p] = "send_check"]
         /\ IF idx[p] < Len(init_messages(config))
              THEN /\ idx' = [idx EXCEPT ![p] = idx[p] + 1]
                   /\ message' = [message EXCEPT ![p] =
                                    init_messages(config)[idx[p] + 1]]
                   /\ UNCHANGED retpc
              ELSE /\ idx' = [idx EXCEPT ![p] = 0]
                   /\ message' = [message EXCEPT ![p] =
                                    SendCommand("wifiConnect")]
                   /\ retpc' = [retpc EXCEPT ![p] = "start_read_thread"]
         /\ UNCHANGED result
    [] retpc[p] = "start_read_thread" /\ val = "True" ->
         /\ pc' = [pc EXCEPT ![p] = "start_read_thread"]
         /\ retpc' = [retpc EXCEPT ![p] = "none"]
         /\ message' = [message EXCEPT ![p] = NoArg]
         /\ UNCHANGED <<idx, result>>
    [] retpc[p] = "hb_head" ->
         /\ pc' = [pc EXCEPT ![p] = "hb_head"]
         /\ retpc' = [retpc EXCEPT ![p] = "none"]
         /\ message' = [message EXCEPT ![p] = NoArg]
         /\ UNCHANGED <<idx, result>>

\* send returns val to the code that called it
SendReturn(p, val, wrote) ==
  CASE retpc[p] = "idle" ->
         /\ pc' = [pc EXCEPT ![p] = "idle"]
         /\ retpc' = [retpc EXCEPT ![p] = "none"]
         /\ message' = [message EXCEPT ![p] = NoArg]
         /\ result' = [result EXCEPT ![p] = [op |-> "send", val |-> val,
                                             wrote |-> wrote]]
         /\ UNCHANGED idx
    [] retpc[p] = "start_burst" ->
         \* lines 257-262: the next init message, or wifiConnect after them
         /\ pc' = [pc EXCEPT ![p] = "send_check"]
         /\ IF idx[p] < Len(init_messages(config))
              THEN /\ idx' = [idx EXCEPT ![p] = idx[p] + 1]
                   /\ message' = [message EXCEPT ![p] =
                                    init_messages(config)[idx[p] + 1]]
                   /\ UNCHANGED retpc
              ELSE /\ idx' = [idx EXCEPT ![p] = 0]
                   /\ message' = [message EXCEPT ![p] =
                                    SendCommand("wifiConnect")]
                   /\ retpc' = [retpc EXCEPT ![p] = "start_read_thread"]
         /\ UNCHANGED result
    [] retpc[p] = "start_read_thread" ->
         /\ pc' = [pc EXCEPT ![p] = "start_read_thread"]
         /\ retpc' = [retpc EXCEPT ![p] = "none"]
         /\ message' = [message EXCEPT ![p] = NoArg]
         /\ UNCHANGED <<idx, result>>
    [] retpc[p] = "hb_head" ->
         \* line 226: sleep, then the loop head
         /\ pc' = [pc EXCEPT ![p] = "hb_head"]
         /\ retpc' = [retpc EXCEPT ![p] = "none"]
         /\ message' = [message EXCEPT ![p] = NoArg]
         /\ UNCHANGED <<idx, result>>

\* send without the check of lines 170-171
SendCheckMissing(p) ==
  /\ pc[p] = "send_check"
  /\ pc' = [pc EXCEPT ![p] = "send_write"]
  /\ UNCHANGED <<drv, retpc, message, target, args, rd, hist, counts>>

\* lines 170-171
SendCheck(p) ==
  /\ pc[p] = "send_check"
  /\ IF device = "None"
       THEN SendReturn(p, "None", Absent)
       ELSE /\ pc' = [pc EXCEPT ![p] = "send_write"]
            /\ UNCHANGED <<retpc, message, idx, result>>
  /\ UNCHANGED <<drv, target, app, tid, dev_kind, rd, hist, counts>>

\* send handing the frame to the OUT endpoint in two write calls
SendWriteTwice(p) ==
  /\ pc[p] = "send_write"
  /\ IF out_ep = "None"
       THEN /\ SendReturn(p, "False", Absent)
            /\ UNCHANGED out
       ELSE /\ pc' = [pc EXCEPT ![p] = "send_in_write"]
            /\ out' = out \o << [by |-> p, message |-> message[p]],
                                [by |-> p, message |-> message[p]] >>
            /\ UNCHANGED <<retpc, message, idx, result>>
  /\ UNCHANGED <<drv, target, app, tid, dev_kind, rd, events, counts>>

\* lines 174-175: serialize, then call write on the OUT endpoint; with no
\* endpoint the call raises AttributeError, which lines 177-179 turn into False
SendWrite(p) ==
  /\ pc[p] = "send_write"
  /\ IF out_ep = "None"
       THEN /\ SendReturn(p, "False", Absent)
            /\ UNCHANGED out
       ELSE /\ pc' = [pc EXCEPT ![p] = "send_in_write"]
            /\ out' = Append(out, [by |-> p, message |-> message[p]])
            /\ UNCHANGED <<retpc, message, idx, result>>
  /\ UNCHANGED <<drv, target, app, tid, dev_kind, rd, events, counts>>

\* what a write call on the OUT endpoint does with the bytes
WriteOutcomes == {"all", "short", "USBError"}

\* the number of bytes a write call that returns has accepted
BytesWritten(outcome, payload) ==
  IF outcome = "all" THEN Len(payload) ELSE Len(payload) - 1

\* send returning whether any byte was written
SendInWriteAny(p, outcome) ==
  /\ pc[p] = "send_in_write"
  /\ LET payload == serialize(message[p])
         bytes_written == BytesWritten(outcome, payload)
     IN IF outcome = "USBError"
          THEN SendReturn(p, "False", Absent)
          ELSE SendReturn(p, IF bytes_written > 0 THEN "True" ELSE "False",
                          Present(bytes_written))
  /\ UNCHANGED <<drv, target, app, tid, dev_kind, rd, hist, counts>>

\* lines 175-179: write returns the number of bytes written, or raises
SendInWrite(p, outcome) ==
  /\ pc[p] = "send_in_write"
  /\ LET payload == serialize(message[p])
         bytes_written == BytesWritten(outcome, payload)
     IN IF outcome = "USBError"
          THEN SendReturn(p, "False", Absent)
          ELSE SendReturn(p, IF bytes_written = Len(payload) THEN "True"
                                                             ELSE "False",
                          Present(bytes_written))
  /\ UNCHANGED <<drv, target, app, tid, dev_kind, rd, hist, counts>>

(***************************************************************************)
(* DongleDriver.start                                                      *)
(***************************************************************************)
\* start with lines 233-235 moved before the check of lines 230-231
StartCheckLate(c) ==
  /\ pc[c] = "start_check"
  /\ error_count' = 0 /\ running' = TRUE /\ heartbeat_running' = TRUE
  /\ IF device = "None"
       THEN /\ pc' = [pc EXCEPT ![c] = "idle"]
            /\ result' = [result EXCEPT ![c] = [op |-> "start",
                                                val |-> "DriverStateError"]]
            /\ UNCHANGED <<tid, nstart>>
       ELSE /\ pc' = [pc EXCEPT ![c] = "start_error_count"]
            /\ nstart' = nstart + 1
            /\ tid' = [tid EXCEPT ![c] = nstart + 1]
            /\ UNCHANGED result
  /\ UNCHANGED <<device, in_ep, out_ep, read_thread, heartbeat_thread, retpc,
                 message, target, app, idx, dev_kind, rd, hist, ninit,
                 nsend, nclose>>

\* lines 230-231
StartCheck(c) ==
  /\ pc[c] = "start_check"
  /\ IF device = "None"
       THEN /\ pc' = [pc EXCEPT ![c] = "idle"]
            /\ result' = [result EXCEPT ![c] = [op |-> "start",
                                                val |-> "DriverStateError"]]
            /\ UNCHANGED <<tid, nstart>>
       ELSE /\ pc' = [pc EXCEPT ![c] = "start_error_count"]
            /\ nstart' = nstart + 1
            /\ tid' = [tid EXCEPT ![c] = nstart + 1]
            /\ UNCHANGED result
  /\ UNCHANGED <<drv, retpc, message, target, app, idx, dev_kind, rd, hist,
                 ninit, nsend, nclose>>

\* line 233
StartErrorCount(c) ==
  /\ pc[c] = "start_error_count"
  /\ error_count' = 0
  /\ pc' = [pc EXCEPT ![c] = "start_running"]
  /\ UNCHANGED <<device, in_ep, out_ep, running, heartbeat_running,
                 read_thread, heartbeat_thread, retpc, message, target, args,
                 rd, hist, counts>>

\* line 234
StartRunning(c) ==
  /\ pc[c] = "start_running"
  /\ running' = TRUE
  /\ pc' = [pc EXCEPT ![c] = "start_heartbeat_running"]
  /\ UNCHANGED <<device, in_ep, out_ep, error_count, heartbeat_running,
                 read_thread, heartbeat_thread, retpc, message, target, args,
                 rd, hist, counts>>

\* line 235, then lines 238-258 up to the first send
StartHeartbeatRunning(c) ==
  /\ pc[c] = "start_heartbeat_running"
  /\ heartbeat_running' = TRUE
  /\ pc' = [pc EXCEPT ![c] = "send_check"]
  /\ retpc' = [retpc EXCEPT ![c] = "start_burst"]
  /\ idx' = [idx EXCEPT ![c] = 1]
  /\ message' = [message EXCEPT ![c] = init_messages(config)[1]]
  /\ UNCHANGED <<device, in_ep, out_ep, error_count, running, read_thread,
                 heartbeat_thread, target, app, tid, dev_kind, result, rd,
                 hist, counts>>

\* line 265
StartReadThread(c) ==
  /\ pc[c] = "start_read_thread"
  /\ read_thread' = <<"read", tid[c]>>
  /\ pc' = [pc EXCEPT ![c] = "start_read_run",
                      ![<<"read", tid[c]>>] = "created"]
  /\ UNCHANGED <<device, in_ep, out_ep, error_count, running,
                 heartbeat_running, heartbeat_thread, retpc, message, target,
                 args, rd, hist, counts>>

\* line 266: self._read_thread is read again and the thread it names is
\* started.  On None, which a close in another thread has stored, the call
\* raises AttributeError, and Thread.start raises RuntimeError on a thread
\* that was started before; the exception leaves start
StartReadRun(c) ==
  /\ pc[c] = "start_read_run"
  /\ IF read_thread # NoThread /\ pc[read_thread] = "created"
       THEN /\ pc' = [pc EXCEPT ![c] = "start_heartbeat_thread",
                                ![read_thread] = "read_head"]
            /\ UNCHANGED <<tid, result>>
       ELSE /\ pc' = [pc EXCEPT ![c] = "idle"]
            /\ result' = [result EXCEPT ![c] =
                            [op |-> "start",
                             val |-> IF read_thread = NoThread
                                       THEN "AttributeError"
                                       ELSE "RuntimeError"]]
            /\ tid' = [tid EXCEPT ![c] = 0]
  /\ UNCHANGED <<drv, retpc, message, target, app, idx, dev_kind, rd, hist,
                 counts>>

\* line 269
StartHeartbeatThread(c) ==
  /\ pc[c] = "start_heartbeat_thread"
  /\ heartbeat_thread' = <<"heartbeat", tid[c]>>
  /\ pc' = [pc EXCEPT ![c] = "start_heartbeat_run",
                      ![<<"heartbeat", tid[c]>>] = "created"]
  /\ UNCHANGED <<device, in_ep, out_ep, error_count, running,
                 heartbeat_running, read_thread, retpc, message, target, args,
                 rd, hist, counts>>

\* line 270, and start returns: self._heartbeat_thread is read again and
\* the thread it names is started, with the exceptions of line 266
StartHeartbeatRun(c) ==
  /\ pc[c] = "start_heartbeat_run"
  /\ IF heartbeat_thread # NoThread /\ pc[heartbeat_thread] = "created"
       THEN /\ pc' = [pc EXCEPT ![c] = "idle",
                                ![heartbeat_thread] = "hb_head"]
            /\ result' = [result EXCEPT ![c] = [op |-> "start",
                                                val |-> "None"]]
       ELSE /\ pc' = [pc EXCEPT ![c] = "idle"]
            /\ result' = [result EXCEPT ![c] =
                            [op |-> "start",
                             val |-> IF heartbeat_thread = NoThread
                                       THEN "AttributeError"
                                       ELSE "RuntimeError"]]
  /\ tid' = [tid EXCEPT ![c] = 0]
  /\ UNCHANGED <<drv, retpc, message, target, app, idx, dev_kind, rd, hist,
                 counts>>

(***************************************************************************)
(* DongleDriver.close, run by the caller, by initialize when it fails and  *)
(* by a read thread that has counted MAX_ERROR_COUNT errors                *)
(***************************************************************************)
\* close returns to the code that called it
CloseReturn(p) ==
  CASE retpc[p] = "idle" ->
         /\ pc' = [pc EXCEPT ![p] = "idle"]
         /\ result' = [result EXCEPT ![p] = [op |-> "close", val |-> "None"]]
         /\ UNCHANGED dev_kind
    [] retpc[p] = "init_raise" ->
         \* line 166: initialize raises and its argument is gone
         /\ pc' = [pc EXCEPT ![p] = "idle"]
         /\ result' = [result EXCEPT ![p] = [op |-> "initialize",
                                             val |-> InitError(dev_kind[p])]]
         /\ dev_kind' = [dev_kind EXCEPT ![p] = "ok"]
    [] retpc[p] = "init_raise_attribute" ->
         \* line 166 with the AttributeError of line 134 or 135
         /\ pc' = [pc EXCEPT ![p] = "idle"]
         /\ result' = [result EXCEPT ![p] = [op |-> "initialize",
                                             val |-> "AttributeError"]]
         /\ dev_kind' = [dev_kind EXCEPT ![p] = "ok"]
    [] retpc[p] = "read_emit" ->
         /\ pc' = [pc EXCEPT ![p] = "read_emit"]
         /\ UNCHANGED <<result, dev_kind>>

\* an exception leaves close: the caller sees it, a thread ends with it
CloseRaise(p, err) ==
  IF p \notin Threads
    THEN /\ pc' = [pc EXCEPT ![p] = "idle"]
         /\ result' = [result EXCEPT ![p] =
                         [op |-> IF retpc[p] = "idle" THEN "close"
                                                      ELSE "initialize",
                          val |-> err]]
         /\ dev_kind' = [dev_kind EXCEPT ![p] = "ok"]
    ELSE /\ pc' = [pc EXCEPT ![p] = "dead"]
         /\ UNCHANGED <<result, dev_kind>>

\* close without the check of lines 274-275
CloseCheckMissing(p) ==
  /\ pc[p] = "close_check"
  /\ pc' = [pc EXCEPT ![p] = "close_running"]
  /\ UNCHANGED <<drv, retpc, message, target, args, rd, hist, counts>>

\* lines 274-275
CloseCheck(p) ==
  /\ pc[p] = "close_check"
  /\ IF device = "None"
       THEN /\ CloseReturn(p)
            /\ retpc' = [retpc EXCEPT ![p] = "none"]
       ELSE /\ pc' = [pc EXCEPT ![p] = "close_running"]
            /\ UNCHANGED <<retpc, result, dev_kind>>
  /\ UNCHANGED <<drv, message, target, app, idx, tid, rd, hist, counts>>

\* line 277
CloseRunning(p) ==
  /\ pc[p] = "close_running"
  /\ running' = FALSE
  /\ pc' = [pc EXCEPT ![p] = "close_heartbeat_running"]
  /\ UNCHANGED <<device, in_ep, out_ep, error_count, heartbeat_running,
                 read_thread, heartbeat_thread, retpc, message, target, args,
                 rd, hist, counts>>

\* line 278
CloseHeartbeatRunning(p) ==
  /\ pc[p] = "close_heartbeat_running"
  /\ heartbeat_running' = FALSE
  /\ pc' = [pc EXCEPT ![p] = "close_hb_check"]
  /\ UNCHANGED <<device, in_ep, out_ep, error_count, running, read_thread,
                 heartbeat_thread, retpc, message, target, args, rd, hist,
                 counts>>

\* line 283: `self._heartbeat_thread and self._heartbeat_thread !=
\* current_thread`.  No heartbeat thread runs close, so the second operand
\* is true of whatever it reads and the first read decides
CloseHbCheck(p) ==
  /\ pc[p] = "close_hb_check"
  /\ pc' = [pc EXCEPT ![p] =
              IF heartbeat_thread # NoThread /\ heartbeat_thread # p
                THEN "close_hb_join" ELSE "close_rd_check"]
  /\ UNCHANGED <<drv, retpc, message, target, args, rd, hist, counts>>

\* Thread.join(timeout=3) on the thread an attribute names: AttributeError
\* when the attribute is None by now, RuntimeError when the thread has not
\* been started, else the caller waits for t
JoinThread(p, t, waiting) ==
  IF t = NoThread
    THEN /\ CloseRaise(p, "AttributeError")
         /\ retpc' = [retpc EXCEPT ![p] = "none"]
         /\ UNCHANGED target
  ELSE IF pc[t] = "created"
    THEN /\ CloseRaise(p, "RuntimeError")
         /\ retpc' = [retpc EXCEPT ![p] = "none"]
         /\ UNCHANGED target
  ELSE /\ pc' = [pc EXCEPT ![p] = waiting]
       /\ target' = [target EXCEPT ![p] = t]
       /\ UNCHANGED <<retpc, result, dev_kind>>

\* line 284: the call
CloseHbJoin(p) ==
  /\ pc[p] = "close_hb_join"
  /\ JoinThread(p, heartbeat_thread, "close_hb_wait")
  /\ UNCHANGED <<drv, message, app, idx, tid, rd, hist, counts>>

\* line 284: join returns, the thread has ended or the 3 seconds are over
CloseHbWait(p) ==
  /\ pc[p] = "close_hb_wait"
  /\ pc' = [pc EXCEPT ![p] = "close_hb_clear"]
  /\ target' = [target EXCEPT ![p] = NoThread]
  /\ UNCHANGED <<drv, retpc, message, args, rd, hist, counts>>

\* line 285
CloseHbClear(p) ==
  /\ pc[p] = "close_hb_clear"
  /\ heartbeat_thread' = NoThread
  /\ pc' = [pc EXCEPT ![p] = "close_rd_check"]
  /\ UNCHANGED <<device, in_ep, out_ep, error_count, running,
                 heartbeat_running, read_thread, retpc, message, target, args,
                 rd, hist, counts>>

\* line 287: `self._read_thread and self._read_thread != current_thread`
\* reads the attribute once for each operand; None, which a close in another
\* thread may store between the two, differs from the current thread
CloseRdCheck(p) ==
  /\ \/ /\ pc[p] = "close_rd_check"
        /\ pc' = [pc EXCEPT ![p] = IF read_thread # NoThread
                                     THEN "close_rd_check_current"
                                     ELSE "close_device"]
     \/ /\ pc[p] = "close_rd_check_current"
        /\ pc' = [pc EXCEPT ![p] = IF read_thread # p
                                     THEN "close_rd_join"
                                     ELSE "close_device"]
  /\ UNCHANGED <<drv, retpc, message, target, args, rd, hist, counts>>

\* line 288: the call
CloseRdJoin(p) ==
  /\ pc[p] = "close_rd_join"
  /\ JoinThread(p, read_thread, "close_rd_wait")
  /\ UNCHANGED <<drv, message, app, idx, tid, rd, hist, counts>>

\* line 288: join returns
CloseRdWait(p) ==
  /\ pc[p] = "close_rd_wait"
  /\ pc' = [pc EXCEPT ![p] = "close_rd_clear"]
  /\ target' = [target EXCEPT ![p] = NoThread]
  /\ UNCHANGED <<drv, retpc, message, args, rd, hist, counts>>

\* line 289
CloseRdClear(p) ==
  /\ pc[p] = "close_rd_clear"
  /\ read_thread' = NoThread
  /\ pc' = [pc EXCEPT ![p] = "close_device"]
  /\ UNCHANGED <<device, in_ep, out_ep, error_count, running,
                 heartbeat_running, heartbeat_thread, retpc, message, target,
                 args, rd, hist, counts>>

\* lines 291-296
CloseDevice(p) ==
  /\ pc[p] = "close_device"
  /\ device' = "None"
  /\ pc' = [pc EXCEPT ![p] = "close_in_ep"]
  /\ UNCHANGED <<in_ep, out_ep, error_count, running, heartbeat_running,
                 read_thread, heartbeat_thread, retpc, message, target, args,
                 rd, hist, counts>>

\* line 297
CloseInEp(p) ==
  /\ pc[p] = "close_in_ep"
  /\ in_ep' = "None"
  /\ pc' = [pc EXCEPT ![p] = "close_out_ep"]
  /\ UNCHANGED <<device, out_ep, error_count, running, heartbeat_running,
                 read_thread, heartbeat_thread, retpc, message, target, args,
                 rd, hist, counts>>

\* line 298, and close returns
CloseOutEp(p) ==
  /\ pc[p] = "close_out_ep"
  /\ out_ep' = "None"
  /\ CloseReturn(p)
  /\ retpc' = [retpc EXCEPT ![p] = "none"]
  /\ UNCHANGED <<device, in_ep, error_count, running, heartbeat_running,
                 read_thread, heartbeat_thread, message, target, app, idx,
                 tid, rd, hist, counts>>

(***************************************************************************)
(* DongleDriver._read_loop                                                 *)
(***************************************************************************)
\* line 183: self._running; the header and the payload of the iteration
\* before are not used again
ReadHead(r) ==
  /\ pc[r] = "read_head"
  /\ pc' = [pc EXCEPT ![r] = IF running THEN "read_head_device" ELSE "done"]
  /\ header' = [header EXCEPT ![r] = NoHeader]
  /\ extra_data' = [extra_data EXCEPT ![r] = <<>>]
  /\ read_error' = [read_error EXCEPT ![r] = "none"]
  /\ UNCHANGED <<drv, retpc, message, target, args, loaded, reading, hist,
                 counts>>

\* line 183: self._device
ReadHeadDevice(r) ==
  /\ pc[r] = "read_head_device"
  /\ pc' = [pc EXCEPT ![r] = IF device # "None" THEN "read_check" ELSE "done"]
  /\ UNCHANGED <<drv, retpc, message, target, args, rd, hist, counts>>

\* lines 185-186
ReadCheck(r) ==
  /\ pc[r] = "read_check"
  /\ IF error_count >= MAX_ERROR_COUNT
       THEN /\ pc' = [pc EXCEPT ![r] = "close_check"]
            /\ retpc' = [retpc EXCEPT ![r] = "read_emit"]
       ELSE /\ pc' = [pc EXCEPT ![r] = "read_header"]
            /\ UNCHANGED retpc
  /\ UNCHANGED <<drv, message, target, args, rd, hist, counts>>

\* lines 187-188
ReadEmit(r) ==
  /\ pc[r] = "read_emit"
  /\ events' = Append(events, [name |-> "failure", by |-> r, type |-> 0,
                               fields |-> <<>>])
  /\ pc' = [pc EXCEPT ![r] = "done"]
  /\ UNCHANGED <<drv, retpc, message, target, args, rd, out, counts>>

\* line 192: the call; with no endpoint it raises AttributeError (line 218)
ReadHeader(r) ==
  /\ pc[r] = "read_header"
  /\ IF in_ep = "None"
       THEN /\ pc' = [pc EXCEPT ![r] = "read_count"]
            /\ read_error' = [read_error EXCEPT ![r] = "AttributeError"]
            /\ UNCHANGED reading
       ELSE /\ pc' = [pc EXCEPT ![r] = "read_in_header"]
            /\ reading' = [reading EXCEPT ![r] = DATA_LENGTH]
            /\ UNCHANGED read_error
  /\ UNCHANGED <<drv, retpc, message, target, args, header, loaded,
                 extra_data, hist, counts>>

\* the message events delivered so far
Messages == Cardinality({j \in 1..Len(events) : events[j].name = "message"})

\* a read loop that an exception of a sink leaves
DispatchSinkFatal(r, h, data, sink) ==
  LET m == to_message(h, data) IN
  /\ IF m.kind = "message"
       THEN /\ Messages < MaxEvents
            /\ events' = Append(events, [name |-> "message", by |-> r,
                                           type |-> m.type,
                                           fields |-> m.fields])
       ELSE UNCHANGED events
  /\ pc' = [pc EXCEPT ![r] =
              IF m.kind = "raise" THEN "read_count"
              ELSE IF m.kind = "message" /\ sink = "raises" THEN "dead"
              ELSE "read_head"]
  /\ UNCHANGED <<header, extra_data>>

\* the read loop with an exception of the constructor or of a sink caught
\* and not counted
DispatchUncounted(r, h, data, sink) ==
  LET m == to_message(h, data) IN
  /\ IF m.kind = "message"
       THEN /\ Messages < MaxEvents
            /\ events' = Append(events, [name |-> "message", by |-> r,
                                           type |-> m.type,
                                           fields |-> m.fields])
       ELSE UNCHANGED events
  /\ pc' = [pc EXCEPT ![r] = "read_head"]
  /\ UNCHANGED <<header, extra_data>>

\* lines 206-208: build the message and emit it; an exception of the
\* constructor or of a sink is caught at line 218
Dispatch(r, h, data, sink) ==
  LET m == to_message(h, data) IN
  /\ IF m.kind = "message"
       THEN /\ Messages < MaxEvents
            /\ events' = Append(events, [name |-> "message", by |-> r,
                                           type |-> m.type,
                                           fields |-> m.fields])
       ELSE UNCHANGED events
  /\ pc' = [pc EXCEPT ![r] =
              IF m.kind = "raise" \/ (m.kind = "message" /\ sink = "raises")
                THEN "read_count" ELSE "read_head"]
  /\ UNCHANGED <<header, extra_data>>

\* a header read without the errno test of lines 211-212
ReadHeaderFailsCounted(r, how) ==
  /\ pc[r] = "read_in_header"
  /\ pc' = [pc EXCEPT ![r] = "read_count"]
  /\ reading' = [reading EXCEPT ![r] = 0]
  /\ read_error' = [read_error EXCEPT ![r] = how]
  /\ UNCHANGED <<drv, retpc, message, target, args, header, loaded,
                 extra_data, hist, counts>>

\* line 192 ends without data: a timeout (errno 110, line 212), another
\* USBError (line 214), or nothing read (line 194)
ReadHeaderFails(r, how) ==
  /\ pc[r] = "read_in_header"
  /\ pc' = [pc EXCEPT ![r] = IF how = "timeout" THEN "read_head"
                                                ELSE "read_count"]
  /\ reading' = [reading EXCEPT ![r] = 0]
  /\ read_error' = [read_error EXCEPT ![r] = how]
  /\ UNCHANGED <<drv, retpc, message, target, args, header, loaded,
                 extra_data, hist, counts>>

\* a read loop that does not read the payload of a frame of unknown type
ReadHeaderDataKnownOnly(r, chunk) ==
  /\ pc[r] = "read_in_header"
  /\ reading' = [reading EXCEPT ![r] = 0]
  /\ LET h == from_buffer(chunk) IN
       IF ~h.ok
         THEN /\ pc' = [pc EXCEPT ![r] = "read_count"]
              /\ UNCHANGED header
         ELSE /\ pc' = [pc EXCEPT ![r] =
                         IF h.length # 0 /\ h.known THEN "read_payload"
                                                    ELSE "read_message"]
              /\ header' = [header EXCEPT ![r] = h]
  /\ UNCHANGED <<drv, retpc, message, target, args, loaded, extra_data,
                 read_error, hist, counts>>

\* lines 192-199: the read returns a chunk and from_buffer parses it
ReadHeaderData(r, chunk) ==
  /\ pc[r] = "read_in_header"
  /\ reading' = [reading EXCEPT ![r] = 0]
  /\ LET h == from_buffer(chunk) IN
       IF ~h.ok
         THEN /\ pc' = [pc EXCEPT ![r] = "read_count"]
              /\ UNCHANGED header
         ELSE /\ pc' = [pc EXCEPT ![r] = IF h.length # 0 THEN "read_payload"
                                                         ELSE "read_message"]
              /\ header' = [header EXCEPT ![r] = h]
  /\ UNCHANGED <<drv, retpc, message, target, args, loaded, extra_data,
                 read_error, hist, counts>>

\* line 200: the call
ReadPayload(r) ==
  /\ pc[r] = "read_payload"
  /\ IF in_ep = "None"
       THEN /\ pc' = [pc EXCEPT ![r] = "read_count"]
            /\ read_error' = [read_error EXCEPT ![r] = "AttributeError"]
            /\ UNCHANGED reading
       ELSE /\ pc' = [pc EXCEPT ![r] = "read_in_payload"]
            /\ reading' = [reading EXCEPT ![r] = header[r].length]
            /\ UNCHANGED read_error
  /\ UNCHANGED <<drv, retpc, message, target, args, header, loaded,
                 extra_data, hist, counts>>

\* a payload read whose failures are all logged and none counted
ReadPayloadFailsUncounted(r, how) ==
  /\ pc[r] = "read_in_payload"
  /\ pc' = [pc EXCEPT ![r] = "read_head"]
  /\ reading' = [reading EXCEPT ![r] = 0]
  /\ read_error' = [read_error EXCEPT ![r] = how]
  /\ UNCHANGED <<drv, retpc, message, target, args, header, loaded,
                 extra_data, hist, counts>>

\* line 200 ends without data: timeout (line 212), another USBError
\* (line 214), or nothing read (lines 201-203)
ReadPayloadFails(r, how) ==
  /\ pc[r] = "read_in_payload"
  /\ pc' = [pc EXCEPT ![r] = IF how = "USBError" THEN "read_count"
                                                 ELSE "read_head"]
  /\ reading' = [reading EXCEPT ![r] = 0]
  /\ read_error' = [read_error EXCEPT ![r] = how]
  /\ UNCHANGED <<drv, retpc, message, target, args, header, loaded,
                 extra_data, hist, counts>>

\* lines 200-204: the read returns the payload
ReadPayloadData(r, data) ==
  /\ pc[r] = "read_in_payload"
  /\ data \in InPayloads(header[r])
  /\ extra_data' = [extra_data EXCEPT ![r] = data]
  /\ reading' = [reading EXCEPT ![r] = 0]
  /\ pc' = [pc EXCEPT ![r] = "read_message"]
  /\ UNCHANGED <<drv, retpc, message, target, args, header, loaded,
                 read_error, hist, counts>>

\* a read loop that hands a missing payload to the constructor of the type,
\* which raises
ReadMessageNoData(r, sink) ==
  /\ pc[r] = "read_message"
  /\ IF extra_data[r] = <<>> /\ header[r].known
       THEN /\ pc' = [pc EXCEPT ![r] = "read_count"]
            /\ UNCHANGED <<events, header, extra_data>>
       ELSE Dispatch(r, header[r], extra_data[r], sink)
  /\ UNCHANGED <<drv, retpc, message, target, args, loaded, reading,
                 read_error, out, counts>>

\* lines 206-208, and lines 218-219 when they raise
ReadMessage(r, sink) ==
  /\ pc[r] = "read_message"
  /\ Dispatch(r, header[r], extra_data[r], sink)
  /\ UNCHANGED <<drv, retpc, message, target, args, loaded, reading,
                 read_error, out, counts>>

\* lines 214, 217, 220: self.error_count += 1 loads the attribute ...
ReadCount(r) ==
  /\ pc[r] = "read_count"
  /\ loaded' = [loaded EXCEPT ![r] = error_count]
  /\ pc' = [pc EXCEPT ![r] = "read_count_store"]
  /\ UNCHANGED <<drv, retpc, message, target, args, header, reading,
                 extra_data, read_error, hist, counts>>

\* ... and stores the sum
ReadCountStore(r) ==
  /\ pc[r] = "read_count_store"
  /\ error_count' = loaded[r] + 1
  /\ loaded' = [loaded EXCEPT ![r] = 0]
  /\ pc' = [pc EXCEPT ![r] = "read_head"]
  /\ UNCHANGED <<device, in_ep, out_ep, running, heartbeat_running,
                 read_thread, heartbeat_thread, retpc, message, target, args,
                 header, reading, extra_data, read_error, hist, counts>>

(***************************************************************************)
(* DongleDriver._heartbeat_loop                                            *)
(***************************************************************************)
\* the HeartBeat frames the OUT endpoint has received
Beats == Cardinality({j \in 1..Len(out) : out[j].by \in HeartbeatThreads})

\* the loop testing self._running in place of self._heartbeat_running
HeartbeatHeadRunning(h) ==
  /\ pc[h] = "hb_head"
  /\ IF running
       THEN /\ (Beats < MaxBeats /\ Len(out) < MaxOut) \/ device = "None"
            /\ pc' = [pc EXCEPT ![h] = "send_check"]
            /\ retpc' = [retpc EXCEPT ![h] = "hb_head"]
            /\ message' = [message EXCEPT ![h] = HeartBeat]
       ELSE /\ pc' = [pc EXCEPT ![h] = "done"]
            /\ UNCHANGED <<retpc, message>>
  /\ UNCHANGED <<drv, target, args, rd, hist, counts>>

\* lines 224-225
HeartbeatHead(h) ==
  /\ pc[h] = "hb_head"
  /\ IF heartbeat_running
       THEN /\ (Beats < MaxBeats /\ Len(out) < MaxOut) \/ device = "None"
            /\ pc' = [pc EXCEPT ![h] = "send_check"]
            /\ retpc' = [retpc EXCEPT ![h] = "hb_head"]
            /\ message' = [message EXCEPT ![h] = HeartBeat]
       ELSE /\ pc' = [pc EXCEPT ![h] = "done"]
            /\ UNCHANGED <<retpc, message>>
  /\ UNCHANGED <<drv, target, args, rd, hist, counts>>

(***************************************************************************)
(* The specifications                                                      *)
(***************************************************************************)
\* initialize and start, statement by statement
InitializeStep(c) ==
  \/ InitCheck(c) \/ InitConfig(c) \/ InitInEp(c) \/ InitOutEp(c)

StartStep(c) ==
  \/ StartCheck(c) \/ StartErrorCount(c) \/ StartRunning(c)
  \/ StartHeartbeatRunning(c) \/ StartReadThread(c) \/ StartReadRun(c)
  \/ StartHeartbeatThread(c) \/ StartHeartbeatRun(c)

SendStep(p) ==
  \/ SendCheck(p) \/ SendWrite(p)
  \/ \E outcome \in WriteOutcomes : SendInWrite(p, outcome)

CloseStep(p) ==
  \/ CloseCheck(p) \/ CloseRunning(p) \/ CloseHeartbeatRunning(p)
  \/ CloseHbCheck(p) \/ CloseHbJoin(p) \/ CloseHbWait(p) \/ CloseHbClear(p)
  \/ CloseRdCheck(p) \/ CloseRdJoin(p) \/ CloseRdWait(p) \/ CloseRdClear(p)
  \/ CloseDevice(p) \/ CloseInEp(p) \/ CloseOutEp(p)

\* the read loop as far as it runs when every read times out
ReadIdleStep(r) ==
  \/ ReadHead(r) \/ ReadHeadDevice(r) \/ ReadCheck(r) \/ ReadHeader(r)
  \/ ReadHeaderFails(r, "timeout")

\* self.error_count += 1
ReadCountStep(r) ==
  \/ ReadCount(r) \/ ReadCountStore(r)

\* the read loop on failing reads, up to the failure event
ReadErrorStep(r) ==
  \/ \E how \in {"USBError", "empty"} : ReadHeaderFails(r, how)
  \/ CloseStep(r)
  \/ ReadEmit(r)

\* the read loop on what the dongle sends
ReadDataStep(r) ==
  \/ \E chunk \in InHeaders : ReadHeaderData(r, chunk)
  \/ ReadPayload(r)
  \/ \E how \in {"timeout", "USBError", "empty"} : ReadPayloadFails(r, how)
  \/ \E data \in InPayloads(header[r]) : ReadPayloadData(r, data)
  \* a registered message sink returns or raises when it is invoked
  \/ \E sink \in {"returns", "raises"} : ReadMessage(r, sink)

\* Spec: one caller thread that runs one session, and a dongle that sends
\* nothing (every read on the IN endpoint times out)
Next ==
  \/ \E c \in Callers :
       \* what initialize finds in the device it is given
       \/ \E kind \in {"ok", "set_configuration_fails", "no_config", "no_in",
                        "no_out"} : CallInitialize(c, kind)
       \/ CallStartOnce(c)
       \/ \E m \in CallerMessages : CallSend(c, m)
       \/ CallClose(c)
       \/ InitializeStep(c) \/ StartStep(c) \/ CloseStep(c)
  \/ \E p \in Callers \cup HeartbeatThreads : SendStep(p)
  \/ \E r \in ReadThreads : ReadIdleStep(r) \/ ReadCountStep(r)
  \/ \E h \in HeartbeatThreads : HeartbeatHead(h)

Spec == Init /\ [][Next]_vars

InitDefault == Init /\ config = DEFAULT_CONFIG

\* SpecDefault: Spec for the default configuration
SpecDefault == InitDefault /\ [][Next]_vars

\* SpecFailure: the caller initializes a good device, runs one session and
\* closes; the dongle sends valid and malformed frames and its reads fail
NextFailure ==
  \/ \E c \in Callers :
       \/ CallInitialize(c, "ok")
       \/ CallStartOnce(c)
       \/ CallClose(c)
       \/ InitializeStep(c) \/ StartStep(c) \/ CloseStep(c)
  \/ \E p \in Callers \cup HeartbeatThreads : SendStep(p)
  \/ \E r \in ReadThreads : \/ ReadIdleStep(r) \/ ReadCountStep(r)
                                \/ ReadErrorStep(r) \/ ReadDataStep(r)
  \/ \E h \in HeartbeatThreads : HeartbeatHead(h)

SpecFailure == InitDefault /\ [][NextFailure]_vars

\* SpecSession: the caller initializes a good device once, runs one session
\* with any of the configurations and closes it; the dongle sends nothing
NextSession ==
  \/ \E c \in Callers :
       \/ CallInitializeOnce(c)
       \/ CallStartOnce(c)
       \/ CallClose(c)
       \/ InitializeStep(c) \/ StartStep(c) \/ CloseStep(c)
  \/ \E p \in Callers \cup HeartbeatThreads : SendStep(p)
  \/ \E r \in ReadThreads : ReadIdleStep(r) \/ ReadCountStep(r)
  \/ \E h \in HeartbeatThreads : HeartbeatHead(h)

SpecSession == Init /\ [][NextSession]_vars

\* SpecRead: the caller initializes a good device once, runs one session
\* and closes it; the dongle sends valid and malformed frames and its reads
\* fail.  The heartbeat threads, which share no attribute with the read loop,
\* are not scheduled
NextRead ==
  \/ \E c \in Callers :
       \/ CallInitializeOnce(c)
       \/ CallStartOnce(c)
       \/ CallClose(c)
       \/ InitializeStep(c) \/ StartStep(c) \/ CloseStep(c) \/ SendStep(c)
  \/ \E r \in ReadThreads : \/ ReadIdleStep(r) \/ ReadCountStep(r)
                                \/ ReadErrorStep(r) \/ ReadDataStep(r)

SpecRead == InitDefault /\ [][NextRead]_vars

\* SpecRestart: the caller initializes a good device and calls start again
\* on the running session; the dongle sends nothing
NextRestart ==
  \/ \E c \in Callers :
       \/ CallInitializeOnce(c)
       \/ CallStart(c)
       \/ InitializeStep(c) \/ StartStep(c)
  \/ \E p \in Callers \cup HeartbeatThreads : SendStep(p)
  \/ \E r \in ReadThreads : ReadIdleStep(r)
  \/ \E h \in HeartbeatThreads : HeartbeatHead(h)

SpecRestart == InitDefault /\ [][NextRestart]_vars

\* SpecCeiling: start is called again on the running session while the
\* reads on the IN endpoint time out or fail; the run is followed up to the
\* first step of a heartbeat thread
NextCeiling ==
  \/ \E c \in Callers :
       \/ CallInitializeOnce(c)
       \/ CallStart(c)
       \/ InitializeStep(c) \/ StartStep(c) \/ SendStep(c)
  \/ \E r \in ReadThreads : \/ ReadIdleStep(r) \/ ReadCountStep(r)
                                \/ ReadErrorStep(r)

SpecCeiling == InitDefault /\ [][NextCeiling]_vars

\* SpecOrder: start is called again on the running session while the dongle
\* sends valid and malformed frames; the run is followed up to the first
\* error a read thread would count and the first step of a heartbeat thread
NextOrder ==
  \/ \E c \in Callers :
       \/ CallInitializeOnce(c)
       \/ CallStart(c)
       \/ InitializeStep(c) \/ StartStep(c) \/ SendStep(c)
  \/ \E r \in ReadThreads : ReadIdleStep(r) \/ ReadDataStep(r)

SpecOrder == InitDefault /\ [][NextOrder]_vars

\* SpecBurst: the caller initializes a good device once and starts one
\* session with any of the configurations, and no write on the OUT endpoint
\* accepts a whole frame: each one is short or raises.  The heartbeat threads
\* are not scheduled and the dongle sends nothing
NextBurst ==
  \/ \E c \in Callers :
       \/ CallInitializeOnce(c)
       \/ CallStartOnce(c)
       \/ InitializeStep(c) \/ StartStep(c)
       \/ SendCheck(c) \/ SendWrite(c)
       \/ \E outcome \in WriteOutcomes \ {"all"} : SendInWrite(c, outcome)
  \/ \E r \in ReadThreads : ReadIdleStep(r)

SpecBurst == Init /\ [][NextBurst]_vars

\* SpecRace: one thread initializes a good device and starts the session
\* while a second thread calls close; the dongle sends nothing.  An
\* initialize that finds the device taken away under it runs close in its
\* except handler (line 165)
NextRace ==
  \/ \E c \in Callers :
       \/ CallInitializeOnce(c)
       \/ CallStartOnce(c)
       \/ InitializeStep(c) \/ StartStep(c)
  \/ \E c \in Closers : CallClose(c)
  \/ \E c \in Callers \cup Closers : CloseStep(c)
  \/ \E p \in Callers \cup HeartbeatThreads : SendStep(p)
  \/ \E r \in ReadThreads : ReadIdleStep(r) \/ ReadCountStep(r)
  \/ \E h \in HeartbeatThreads : HeartbeatHead(h)

\* every thread that can take a step of the code it is running is scheduled
\* eventually (the calls themselves are up to the application and need not
\* happen)
SpecRace ==
  /\ InitDefault /\ [][NextRace]_vars
  /\ \A p \in Procs :
       WF_vars(\/ p \in Callers /\ (InitializeStep(p) \/ StartStep(p))
               \/ p \in Callers \cup Closers /\ CloseStep(p)
               \/ p \in Callers \cup HeartbeatThreads /\ SendStep(p)
               \/ p \in ReadThreads /\ (ReadIdleStep(p) \/ ReadCountStep(p))
               \/ p \in HeartbeatThreads /\ HeartbeatHead(p))

(***************************************************************************)
(* The initialization burst                                                *)
(***************************************************************************)
\* the bytes of the last n write calls on the OUT endpoint
LastFrames(n) == [j \in 1..n |-> serialize(out[Len(out) - n + j].message)]

\* the type field of a frame
FrameType(frame) == from_buffer(Slice(frame, 0, DATA_LENGTH)).type

\* the burst as the interface description lists it
BurstOrder(cfg) ==
  << SendNumber(cfg.dpi, "/tmp/screen_dpi"),
     SendOpen(cfg),
     SendBoolean(cfg.night_mode, "/tmp/night_mode"),
     SendNumber(cfg.hand, "/tmp/hand_drive_mode"),
     SendBoolean(TRUE, "/tmp/charge_mode"),
     SendString(cfg.box_name, "/etc/box_name"),
     SendBoxSettings(cfg),
     SendCommand("wifiEnable"),
     IF cfg.wifi_type = "5ghz" THEN SendCommand("wifi5g")
                               ELSE SendCommand("wifi24g"),
     IF cfg.mic_type = "box" THEN SendCommand("boxMic")
                             ELSE SendCommand("mic"),
     IF cfg.audio_transfer_mode THEN SendCommand("audioTransferOn")
                                ELSE SendCommand("audioTransferOff") >>
  \o (IF cfg.android_work_mode = Absent THEN << >>
      ELSE << SendBoolean(cfg.android_work_mode[1],
                          "/etc/android_work_mode") >>)
  \o << SendCommand("wifiConnect") >>

\* start has sent its last frame and has created no thread yet
BurstDone(c) == pc[c] = "start_read_thread"

\* C1: when start, called on an initialized session with no background task,
\* has sent wifiConnect, no background task exists yet and the frames the
\* OUT endpoint received from this start are, in order, SendNumber(dpi),
\* SendOpen, SendBoolean(night_mode), SendNumber(hand), SendBoolean(true) to
\* charge_mode, SendString(box_name), SendBoxSettings, wifiEnable, the wifi
\* band command, the microphone command, the audio transfer command,
\* SendBoolean(android_work_mode) exactly when it is present, and wifiConnect;
\* for the default configuration their type codes are 0x99, 0x01, 0x99, 0x99,
\* 0x99, 0x99, 0x19, 0x08, 0x08, 0x08, 0x08 and one more 0x08
C1_BurstOrder ==
  \A c \in Callers :
    BurstDone(c) =>
      LET want == BurstOrder(config) IN
      /\ \A t \in Threads : pc[t] = "unborn"
      /\ Len(out) >= Len(want)
      /\ \A j \in 1..Len(want) : out[Len(out) - Len(want) + j].by = c
      /\ LastFrames(Len(want)) = [j \in 1..Len(want) |-> serialize(want[j])]
      /\ config = DEFAULT_CONFIG =>
           [j \in 1..Len(want) |-> FrameType(LastFrames(Len(want))[j])]
             = <<153, 1, 153, 153, 153, 153, 25, 8, 8, 8, 8, 8>>

\* a start with android_work_mode present and the 2.4 GHz band has sent its
\* burst
C1_Witness ==
  \E c \in Callers :
    /\ BurstDone(c)
    /\ config.android_work_mode = Present(TRUE)
    /\ config.wifi_type = "2.4ghz"
    /\ Len(out) = 13
    /\ out[13].message = SendCommand("wifiConnect")

(***************************************************************************)
(* The session states                                                      *)
(***************************************************************************)
\* Closed: a device was taken and close has released it
Closed ==
  /\ ninit > 0
  /\ device = "None" /\ in_ep = "None" /\ out_ep = "None"

\* no thread is started in the step
NoThreadStarted == \A t \in Threads : Alive(t)' => Alive(t)

\* C2: once the session is Closed no call brings it back: no device is held
\* again, no frame is written and no background task is started
C2_ClosedIsTerminal ==
  [][Closed => (Closed' /\ out' = out /\ NoThreadStarted)]_vars

\* Running: start has set the flags and started both threads, and no close
\* has begun since
Running ==
  /\ device # "None" /\ running /\ heartbeat_running
  /\ read_thread # NoThread /\ heartbeat_thread # NoThread
  /\ pc[read_thread] # "created" /\ pc[heartbeat_thread] # "created"

\* the threads of a kind that have been started and have not ended
Active(kind) == {t \in kind : Alive(t)}

\* C3: in every state in which the session is Running exactly one read thread
\* and exactly one heartbeat thread are active, and only read threads are in
\* a read on the IN endpoint
C3_OneTaskOfEachKind ==
  Running =>
    /\ Cardinality(Active(ReadThreads)) = 1
    /\ Cardinality(Active(HeartbeatThreads)) = 1
    /\ \A p \in Procs :
         pc[p] \in {"read_in_header", "read_in_payload"} => p \in ReadThreads

\* C4: start gets past its state check only on a session that is not Running:
\* on a Running session it raises and so sends no burst, resets no counter
\* and spawns no thread
C4_StartRejectedWhenRunning ==
  \A c \in Callers : pc[c] = "start_error_count" => ~Running

\* C5: a start call that finds no device raises DriverStateError and changes
\* nothing: the error counter, the stop flags, the frames on the OUT endpoint
\* and the threads are as before
C5_StartWithoutDevice ==
  [][\A c \in Callers :
       (pc[c] = "start_check" /\ device = "None" /\ pc'[c] # "start_check")
         => /\ pc'[c] = "idle"
            /\ result'[c] = [op |-> "start", val |-> "DriverStateError"]
            /\ UNCHANGED <<drv, hist>>
            /\ \A t \in Threads : pc'[t] = pc[t]]_vars

\* a start call has raised on a session whose device was taken and released
\* without a start in between
C5_Witness ==
  /\ ninit = 1 /\ nstart = 0 /\ device = "None"
  /\ \E c \in Callers :
       /\ pc[c] = "idle"
       /\ result[c] = [op |-> "start", val |-> "DriverStateError"]

\* Uninitialized: no device was ever taken
Uninitialized ==
  /\ ninit = 0
  /\ device = "None" /\ in_ep = "None" /\ out_ep = "None"

\* C11: a close call on a session that is Closed or was never initialized
\* returns at once and changes nothing: the attributes of the driver, the
\* frames on the OUT endpoint, the events and the threads are as before
C11_CloseIdempotent ==
  [][\A c \in Callers :
       (/\ pc[c] = "close_check" /\ retpc[c] = "idle"
        /\ Closed \/ Uninitialized
        /\ pc'[c] # "close_check")
         => /\ pc'[c] = "idle"
            /\ result'[c] = [op |-> "close", val |-> "None"]
            /\ UNCHANGED <<drv, hist>>
            /\ \A t \in Threads : pc'[t] = pc[t]]_vars

\* a close call has returned on a session that was never initialized
C11_Witness ==
  /\ Uninitialized
  /\ \E c \in Callers :
       /\ pc[c] = "idle"
       /\ result[c] = [op |-> "close", val |-> "None"]

\* C12: a send on a session that is Closed or was never initialized writes
\* nothing to the OUT endpoint and returns; the caller gets None
C12_SendWithoutDevice ==
  [][\A p \in Callers \cup HeartbeatThreads :
       (/\ pc[p] = "send_check"
        /\ Closed \/ Uninitialized
        /\ pc'[p] # "send_check")
         => /\ out' = out
            /\ pc'[p] # "send_write"
            /\ (p \in Callers /\ retpc[p] = "idle") =>
                 /\ pc'[p] = "idle"
                 /\ result'[p] = [op |-> "send", val |-> "None",
                               wrote |-> Absent]]_vars

\* the last call of the caller on a session that ran and was closed is a
\* send, and it has returned None
C12_Witness ==
  /\ Closed /\ nstart = 1
  /\ \E c \in Callers :
       /\ pc[c] = "idle"
       /\ result[c] = [op |-> "send", val |-> "None", wrote |-> Absent]

\* C13: a send that entered the write on the OUT endpoint returns True
\* exactly when the write accepted every byte of the serialized frame, and
\* False on a short write or a write error; in each case the error counter,
\* the stop flags, the device and the threads are as before
C13_SendResult ==
  [][\A c \in Callers :
       (/\ pc[c] = "send_in_write" /\ retpc[c] = "idle"
        /\ pc'[c] # "send_in_write")
         => /\ pc'[c] = "idle"
            /\ result'[c].op = "send"
            /\ result'[c].val \in {"True", "False"}
            /\ result'[c].val = "True" <=>
                 result'[c].wrote = Present(Len(serialize(message[c])))
            /\ UNCHANGED <<drv, events>>
            /\ \A t \in Threads : pc'[t] = pc[t]]_vars

\* a send on the running session has returned False after a short write,
\* and the session is still running with no error counted
C13_Witness ==
  /\ Running /\ error_count = 0
  /\ \A t \in {read_thread, heartbeat_thread} : Alive(t)
  /\ \E c \in Callers :
       /\ pc[c] = "idle"
       /\ result[c].op = "send" /\ result[c].val = "False"
       /\ result[c].wrote # Absent

\* C22: initialize on a session that holds a device returns at once: the
\* device is not taken or configured again, the endpoints, the flags, the
\* error counter and the thread attributes are as before, and no thread is
\* started or ended by the step
C22_InitializeReentry ==
  [][\A c \in Callers :
       (pc[c] = "init_check" /\ pc'[c] # "init_check" /\ device # "None")
         => /\ pc'[c] = "idle"
            /\ result'[c] = [op |-> "initialize", val |-> "None"]
            /\ UNCHANGED <<drv, hist, ninit>>
            /\ \A t \in Threads : pc'[t] = pc[t]]_vars

\* initialize has returned on a session that was started after the only
\* time a device was taken
C22_Witness ==
  \E c \in Callers :
    /\ pc[c] = "idle" /\ result[c] = [op |-> "initialize", val |-> "None"]
    /\ ninit = 1 /\ nstart > 0 /\ device # "None" /\ running

\* where a thread is while it runs send
InSend == {"send_check", "send_write", "send_in_write"}

\* C23: a heartbeat thread at its loop head with the flag set goes on to send
\* a HeartBeat; whatever send returns, the thread is back at the loop head;
\* each frame it writes is the 16-byte header of type 0xAA and length 0,
\* written by the one write call of that send; and the thread ends only at
\* the loop head, with the flag cleared
C23_HeartbeatLoop ==
  [][\A h \in HeartbeatThreads :
       /\ (pc[h] = "hb_head" /\ pc'[h] # "hb_head" /\ heartbeat_running)
            => pc'[h] = "send_check" /\ message'[h] = HeartBeat
       /\ (pc[h] \in InSend /\ pc'[h] \notin InSend) => pc'[h] = "hb_head"
       /\ (out' # out /\ out'[Len(out')].by = h)
            => /\ pc[h] = "send_write" /\ pc'[h] = "send_in_write"
               /\ out' = Append(out, [by |-> h, message |-> HeartBeat])
               /\ serialize(HeartBeat) = as_buffer(170, 0)
               /\ Len(serialize(HeartBeat)) = DATA_LENGTH
       /\ (Alive(h) /\ ~Alive(h)')
            => pc[h] = "hb_head" /\ ~heartbeat_running]_vars

\* a heartbeat thread is back at its loop head after a send that wrote its
\* frame, on a session that is still Running
C23_Witness ==
  \E h \in HeartbeatThreads :
    /\ pc[h] = "hb_head" /\ heartbeat_running /\ Running
    /\ \E j \in 1..Len(out) : out[j].by = h

\* C24: the error counter changes only in a step of a read thread, which adds
\* one, and in a step of start, which sets it to 0: send, the heartbeat
\* threads, initialize and close leave it as it is
C24_ErrorCountWriters ==
  [][error_count' # error_count
       => \/ \E r \in ReadThreads :
               /\ pc[r] = "read_count_store" /\ pc'[r] # pc[r]
               /\ error_count' = error_count + 1
          \/ \E c \in Callers :
               /\ pc[c] = "start_error_count" /\ pc'[c] # pc[c]
               /\ error_count' = 0]_vars

\* one complete frame: a well-formed header whose length field is the number
\* of bytes that follow it
OneFrame(data) ==
  /\ Len(data) >= DATA_LENGTH
  /\ from_buffer(Slice(data, 0, DATA_LENGTH)).ok
  /\ from_buffer(Slice(data, 0, DATA_LENGTH)).length = Len(data) - DATA_LENGTH

\* C28: the OUT endpoint receives a write call only in the write step of a
\* send, one call in that step, and its bytes are one complete frame of the
\* message of that send; from inside the write the send only returns
C28_OneWritePerSend ==
  [][/\ out' # out
        => \E p \in Procs :
             /\ pc[p] = "send_write" /\ pc'[p] = "send_in_write"
             /\ out' = Append(out, [by |-> p, message |-> message[p]])
             /\ OneFrame(serialize(message[p]))
             /\ from_buffer(Slice(serialize(message[p]), 0, DATA_LENGTH)).type
                  = TypeOf(message[p])
     /\ \A p \in Procs :
          (pc[p] = "send_in_write" /\ pc'[p] # "send_in_write")
            => pc'[p] \in {"idle", "send_check", "start_read_thread",
                            "hb_head"}]_vars

\* the caller's own send has returned after its write of a frame with a
\* payload
C28_Witness ==
  \E c \in Callers :
    /\ pc[c] = "idle" /\ result[c].op = "send" /\ result[c].wrote # Absent
    /\ \E j \in 1..Len(out) :
         out[j].by = c /\ out[j].message \in CallerMessages

\* the last call of c was an initialize that raised
InitializeFailed(c) ==
  result[c].op = "initialize" /\ result[c].val # "None"

\* C21: an initialize that fails raises the error of the device to the
\* caller and leaves the session without device and endpoints; the send that
\* follows returns None without writing and the start that follows raises
\* the state error without starting a thread
C21_InitializeFailureCloses ==
  [][\A c \in Callers :
       /\ (retpc[c] = "init_raise" /\ pc'[c] = "idle")
            => result'[c] = [op |-> "initialize",
                             val |-> InitError(dev_kind[c])]
       /\ (InitializeFailed(c)' /\ pc'[c] = "idle")
            => device' = "None" /\ in_ep' = "None" /\ out_ep' = "None"
       /\ (InitializeFailed(c) /\ pc[c] = "send_check"
              /\ pc'[c] # "send_check")
            => /\ result'[c] = [op |-> "send", val |-> "None",
                                wrote |-> Absent]
               /\ out' = out
       /\ (InitializeFailed(c) /\ pc[c] = "start_check"
              /\ pc'[c] # "start_check")
            => /\ result'[c] = [op |-> "start", val |-> "DriverStateError"]
               /\ NoThreadStarted]_vars

\* an initialize has failed, the device is released and start is called
C21_Witness ==
  \E c \in Callers :
    /\ InitializeFailed(c) /\ pc[c] = "start_check"
    /\ ninit > 0 /\ device = "None"

\* the threads inside the write call on the OUT endpoint
Writers == {p \in Procs : pc[p] = "send_in_write"}

\* C8: at no time are two threads inside the write on the OUT endpoint
C8_WritesSerialized == Cardinality(Writers) <= 1

(***************************************************************************)
(* The error ceiling and the failure path                                  *)
(***************************************************************************)
\* the positions of the events of a name
EventsNamed(name) == {j \in 1..Len(events) : events[j].name = name}

\* C6: once five errors are counted since start the failure event is emitted
\* once, and no message event is delivered after it
C6_FailureOnce ==
  /\ Cardinality(EventsNamed("failure")) <= 1
  /\ \A i \in EventsNamed("failure"), j \in EventsNamed("message") : j < i

\* C7: the error counter never exceeds MAX_ERROR_COUNT, and no read thread
\* is in a read on the IN endpoint once the counter has reached it
C7_ErrorCountBounded ==
  /\ 0 <= error_count /\ error_count <= MAX_ERROR_COUNT
  /\ error_count = MAX_ERROR_COUNT =>
       \A r \in ReadThreads : pc[r] # "read_in_header"

\* the positions on the OUT endpoint of the frames start has sent
BurstFrames ==
  {j \in 1..Len(out) :
     out[j].by \in Callers /\ out[j].message \notin CallerMessages}

\* the positions on the OUT endpoint of the frames of heartbeat threads
HeartbeatFrames == {j \in 1..Len(out) : out[j].by \in HeartbeatThreads}

\* C18: every frame of an initialization burst is written to the OUT endpoint
\* before any frame of a heartbeat thread: no HeartBeat frame is between or
\* before burst frames
C18_BurstBeforeHeartbeat ==
  \A i \in HeartbeatFrames, j \in BurstFrames : j < i

(***************************************************************************)
(* The read loop, frame by frame                                           *)
(***************************************************************************)
\* the bytes the constructor of a class with a fixed layout unpacks
LayoutLength(t) ==
  CASE t = MessageType.Command -> 4
    [] t = MessageType.Phase -> 4
    [] t = MessageType.ManufacturerInfo -> 8
    [] t = MessageType.Open -> 28
    [] t = MessageType.Plugged -> 4
    [] OTHER -> 0

\* a payload that is malformed for the recognized type of its header: too
\* short for the layout, or with a command or phone type code that is not
\* recognized
Malformed(h, data) ==
  /\ h.ok /\ h.known /\ Len(data) > 0
  /\ \/ Len(data) < LayoutLength(h.type)
     \/ /\ h.type = MessageType.Command /\ CanUnpack(data, 0)
        /\ Field(data, 0) \notin CommandCodes
     \/ /\ h.type = MessageType.Plugged /\ CanUnpack(data, 0)
        /\ Field(data, 0) \notin PhoneTypeCodes

\* C14 as stated: a frame whose payload is malformed for its type is
\* skipped: decoding does not raise, no message event is emitted and the read
\* loop goes on to the next header without counting an error
C14_MalformedSkipped ==
  [][\A r \in ReadThreads :
       (/\ pc[r] = "read_message"
        /\ Malformed(header[r], extra_data[r])
        /\ pc'[r] # "read_message")
         => /\ events' = events
            /\ pc'[r] = "read_head"]_vars

\* C14: a frame whose payload is malformed for its type emits no message
\* event; the constructor raises, the read loop catches the exception and
\* counts it: the error counter goes up by one
C14_MalformedCounted ==
  [][\A r \in ReadThreads :
       /\ (/\ pc[r] = "read_message"
           /\ Malformed(header[r], extra_data[r])
           /\ pc'[r] # "read_message")
            => /\ events' = events
               /\ pc'[r] = "read_count"
       /\ (/\ pc[r] \in {"read_count", "read_count_store"}
           /\ Malformed(header[r], extra_data[r])
           /\ pc'[r] # pc[r])
            => /\ events' = events
               /\ \/ pc'[r] = "read_count_store" /\ error_count' = error_count
                  \/ pc'[r] = "read_head" /\ error_count' = error_count + 1
      ]_vars

\* a Command frame with an unrecognized command code has been counted as the
\* first error, and no message event was emitted
C14_Witness ==
  \E r \in ReadThreads :
    /\ pc[r] = "read_head"
    /\ header[r].type = MessageType.Command
    /\ extra_data[r] = PackU32(9999)
    /\ Malformed(header[r], extra_data[r])
    /\ error_count = 1 /\ events = <<>>

\* C15 as stated: a payload read that fails (timeout, another USB error, or
\* nothing read) is not counted, and the read loop goes on to the next header
C15_PayloadFailureUncounted ==
  [][\A r \in ReadThreads :
       (/\ pc[r] = "read_in_payload" /\ pc'[r] # "read_in_payload"
        /\ read_error'[r] # "none")
         => /\ pc'[r] = "read_head"
            /\ error_count' = error_count]_vars

\* C15: a payload read that times out or returns nothing is not counted and
\* the read loop goes on to the next header; a payload read that raises
\* another USB error is counted: the error counter goes up by one
C15_PayloadFailure ==
  [][\A r \in ReadThreads :
       /\ (/\ pc[r] = "read_in_payload" /\ pc'[r] # "read_in_payload"
           /\ read_error'[r] \in {"timeout", "empty"})
            => /\ pc'[r] = "read_head"
               /\ error_count' = error_count /\ events' = events
       /\ (/\ pc[r] = "read_in_payload" /\ pc'[r] # "read_in_payload"
           /\ read_error'[r] = "USBError")
            => /\ pc'[r] = "read_count"
               /\ error_count' = error_count /\ events' = events
       /\ (/\ pc[r] \in {"read_count", "read_count_store"}
           /\ header[r].ok /\ read_error[r] = "USBError"
           /\ pc'[r] # pc[r])
            => /\ events' = events
               /\ \/ pc'[r] = "read_count_store" /\ error_count' = error_count
                  \/ pc'[r] = "read_head" /\ error_count' = error_count + 1
      ]_vars

\* the payload read of a Command frame has raised a USB error that is not a
\* timeout, and it has been counted as the first error
C15_Witness ==
  \E r \in ReadThreads :
    /\ pc[r] = "read_head"
    /\ header[r].ok /\ header[r].type = MessageType.Command
    /\ read_error[r] = "USBError"
    /\ error_count = 1 /\ events = <<>>

\* C16: a header read that times out leaves the error counter, the stop
\* flags and the device as they are and emits no event; the read loop goes on
\* to its loop head, so timeouts alone never count up to the failure path
C16_TimeoutNotCounted ==
  [][\A r \in ReadThreads :
       (/\ pc[r] = "read_in_header" /\ pc'[r] # "read_in_header"
        /\ read_error'[r] = "timeout")
         => /\ pc'[r] = "read_head"
            /\ UNCHANGED <<drv, events>>]_vars

\* the header read of the running session has timed out, no error is counted
\* and no event was emitted
C16_Witness ==
  /\ Running /\ error_count = 0 /\ events = <<>>
  /\ \E r \in ReadThreads :
       /\ r = read_thread /\ pc[r] = "read_head"
       /\ header[r] = NoHeader /\ read_error[r] = "timeout"

\* a valid header whose type code is no MessageType
UnknownType(h) == h.ok /\ ~h.known

\* C17: for a valid header with an unknown type code the read thread asks
\* the IN endpoint for header.length payload bytes, and with the payload
\* read it emits no message event, counts no error and goes on to the next
\* header
C17_UnknownTypeSkipped ==
  [][\A r \in ReadThreads :
       /\ (/\ pc[r] = "read_payload" /\ UnknownType(header[r])
           /\ in_ep # "None" /\ pc'[r] # "read_payload")
            => /\ pc'[r] = "read_in_payload"
               /\ reading'[r] = header[r].length
       /\ (/\ pc[r] = "read_message" /\ UnknownType(header[r])
           /\ pc'[r] # "read_message")
            => /\ header[r].length # 0 => extra_data[r] # <<>>
               /\ pc'[r] = "read_head"
               /\ error_count' = error_count /\ events' = events
      ]_vars

\* a frame of the unknown type 119 with two payload bytes has been read and
\* dropped: no event, no error counted
C17_Witness ==
  \E r \in ReadThreads :
    /\ pc[r] = "read_head"
    /\ UnknownType(header[r]) /\ header[r].type = 119
    /\ Len(extra_data[r]) = header[r].length /\ header[r].length = 2
    /\ error_count = 0 /\ events = <<>>

\* the header of a frame of type t that announces no payload
EmptyFrame(t) == from_buffer(as_buffer(t, 0))

\* C30: a frame with a valid header and length 0 is decoded without a
\* payload: of type Unplugged it emits one Unplugged message event; of any
\* other recognized type it emits no message event and the read loop goes on
\* to the next header without counting an error
C30_EmptyFrame ==
  [][\A r \in ReadThreads :
       (/\ pc[r] = "read_message" /\ pc'[r] # "read_message"
        /\ header[r].ok /\ header[r].length = 0)
         => /\ extra_data[r] = <<>>
            /\ header[r].type = MessageType.Unplugged
                 => events' = Append(events,
                                [name |-> "message", by |-> r,
                                 type |-> MessageType.Unplugged,
                                 fields |-> <<>>])
            /\ (header[r].known /\ header[r].type # MessageType.Unplugged)
                 => /\ events' = events
                    /\ pc'[r] = "read_head"
                    /\ error_count' = error_count
            /\ \A t \in MessageTypeCodes \ {MessageType.Unplugged} :
                 to_message(EmptyFrame(t), <<>>) = NoMessage
      ]_vars

\* a read thread has read an Unplugged frame and then an Open frame, both of
\* length 0: one Unplugged message event was emitted and no error counted
C30_Witness ==
  \E r \in ReadThreads :
    /\ pc[r] = "read_head"
    /\ header[r] = EmptyFrame(MessageType.Open) /\ extra_data[r] = <<>>
    /\ error_count = 0
    /\ events = <<[name |-> "message", by |-> r,
                   type |-> MessageType.Unplugged, fields |-> <<>>]>>

\* C10: close called by a read thread joins no read thread and returns: the
\* read thread is never ended by an exception of close
C10_FailureCloseReturns ==
  \A r \in ReadThreads :
    /\ pc[r] \notin {"close_rd_join", "close_rd_wait", "close_rd_clear"}
    /\ pc[r] # "dead"

\* C9: no background task keeps running forever on a session that stays
\* Closed: if from some point on no device is held, then from some point on
\* no thread is alive
C9_TasksTerminate ==
  <>[](device = "None") => <>[](\A t \in Threads : ~Alive(t))

(***************************************************************************)
(* The event emitter the driver inherits: on, emit, remove_listener and     *)
(* remove_all_listeners on the dictionary self._events.  The application    *)
(* registers and removes its listeners; a listener that emit invokes        *)
(* returns or raises, and it or another thread may call on, remove_listener *)
(* and remove_all_listeners while emit is in its loop.                      *)
(***************************************************************************)
\* the events the driver emits
EventNames == {"message", "failure"}

\* the callables the application registers
Listeners == {"a", "b"}

\* what the driver holds, which the emitter does not touch
driver ==
  <<drv, pc, retpc, message, target, config, idx, tid, dev_kind, result, rd,
    hist, counts>>

\* the position of the first occurrence of x in list (0: x is not in it)
index(list, x) ==
  IF \E j \in 1..Len(list) : list[j] = x
  THEN CHOOSE j \in 1..Len(list) :
         list[j] = x /\ \A k \in 1..(j - 1) : list[k] # x
  ELSE 0

\* on(event, listener): the listener is appended to the list of the event,
\* which is created when the event has none
on(event, listener) ==
  /\ IF event \in DOMAIN _events
     THEN Len(_events[event]) < MaxListeners
     ELSE TRUE
  /\ _events' =
       [e \in DOMAIN _events \cup {event} |->
          IF e = event
          THEN IF event \in DOMAIN _events
               THEN Append(_events[event], listener)
               ELSE <<listener>>
          ELSE _events[e]]
  /\ UNCHANGED <<driver, touch, wire, emit_state, emit_event, emit_pos,
                 emit_list, invoked, registered, removed>>

\* emit(event) is called: without a list for the event it returns at once,
\* else it starts its loop over the list
emit(event) ==
  /\ emit_state # "dispatching"
  /\ emit_event' = event /\ emit_pos' = 0
  /\ emit_list' = [held |-> TRUE, items |-> <<>>]
  /\ invoked' = <<>> /\ removed' = {}
  /\ IF event \in DOMAIN _events
     THEN emit_state' = "dispatching" /\ registered' = _events[event]
     ELSE emit_state' = "returned" /\ registered' = <<>>
  /\ UNCHANGED <<driver, touch, wire, _events>>

\* the list `for listener in self._events[event]` is over: the object line
\* 20 has read from the dictionary, with the items on and remove_listener
\* have left in it, or with the items it had when remove_all_listeners took
\* it out of the dictionary
EmitList ==
  IF emit_list.held THEN _events[emit_event] ELSE emit_list.items

\* one round of `for listener in self._events[event]`: the loop takes the
\* next item of the list as it is now and calls it.  The listener runs from
\* this step until the next step of the loop; what it does to the list
\* meanwhile are steps of on, remove_listener and remove_all_listeners
emit_invoke ==
  /\ emit_state = "dispatching"
  /\ emit_pos < Len(EmitList)
  /\ emit_pos' = emit_pos + 1
  /\ invoked' = Append(invoked, EmitList[emit_pos + 1])
  /\ UNCHANGED <<driver, touch, wire, _events, emit_state, emit_event,
                 emit_list, registered, removed>>

\* line 21: the listener the loop has called raises, and the exception
\* leaves emit
emit_raise ==
  /\ emit_state = "dispatching"
  /\ invoked # <<>>
  /\ emit_state' = "raised"
  /\ UNCHANGED <<driver, touch, wire, _events, emit_event, emit_pos, emit_list,
                 invoked, registered, removed>>

\* the loop of emit finds no further item in the list: emit returns
emit_return ==
  /\ emit_state = "dispatching"
  /\ emit_pos >= Len(EmitList)
  /\ emit_state' = "returned"
  /\ UNCHANGED <<driver, touch, wire, _events, emit_event, emit_pos, emit_list,
                 invoked, registered, removed>>

\* remove_listener(event, listener): the first occurrence of the listener
\* leaves the list of the event; a listener that is not in it is ignored
remove_listener(event, listener) ==
  /\ event \in DOMAIN _events
  /\ index(_events[event], listener) # 0
  /\ _events' =
       [_events EXCEPT ![event] =
          [j \in 1..(Len(@) - 1) |->
             IF j < index(@, listener) THEN @[j] ELSE @[j + 1]]]
  /\ removed' =
       IF emit_state = "dispatching" /\ event = emit_event
       THEN removed \cup {listener}
       ELSE removed
  /\ UNCHANGED <<driver, touch, wire, emit_state, emit_event, emit_pos,
                 emit_list, invoked, registered>>

\* remove_all_listeners(event): an event that is true (a name that is not
\* empty) gets a new empty list, also when it had none; for an event that is
\* not (None, '') the dictionary is cleared.  A list the loop of emit is over
\* leaves the dictionary as it is
remove_all_listeners(event) ==
  LET all == event \in {"None", ""}
      dispatched == emit_state = "dispatching" /\ (all \/ event = emit_event)
  IN /\ _events' =
          IF ~all
          THEN [e \in DOMAIN _events \cup {event} |->
                  IF e = event THEN <<>> ELSE _events[e]]
          ELSE [e \in {} |-> <<>>]
     /\ emit_list' =
          IF dispatched /\ emit_list.held
          THEN [held |-> FALSE, items |-> _events[emit_event]]
          ELSE emit_list
     /\ removed' =
          IF dispatched /\ emit_event \in DOMAIN _events
          THEN removed
                 \cup {_events[emit_event][j] :
                         j \in 1..Len(_events[emit_event])}
          ELSE removed
     /\ UNCHANGED <<driver, touch, wire, emit_state, emit_event, emit_pos,
                    invoked, registered>>

\* SpecEvents: the application registers and removes listeners and events
\* are emitted, on a driver that is not initialized
NextEvents ==
  \/ \E event \in EventNames, listener \in Listeners : on(event, listener)
  \/ \E event \in EventNames : emit(event)
  \/ emit_invoke
  \/ emit_raise
  \/ emit_return
  \/ \E event \in EventNames, listener \in Listeners :
       remove_listener(event, listener)
  \/ \E event \in EventNames \cup {"None", ""} : remove_all_listeners(event)

SpecEvents == InitDefault /\ [][NextEvents]_vars

\* C19: when a listener is removed while an event is being dispatched, every
\* listener that was registered for the event when emit began is still
\* invoked exactly once, in that emit
C19_DispatchOverSnapshot ==
  (emit_state = "returned" /\ removed # {}) => invoked = registered

\* C20: when emit returns it has invoked every listener registered for the
\* event exactly once, in the order of registration, and no other listener;
\* on an event without listeners it has invoked none
C20_EmitInvokesAllInOrder ==
  emit_state = "returned" => invoked = registered

(***************************************************************************)
(* The wire format on its own: headers and frames are built, altered on    *)
(* the line and parsed, with no session involved                           *)
(***************************************************************************)
\* the values an altered byte takes
AlteredBytes == {0, 127, 255}

Unaltered(op) == made.op = op /\ made.altered = 0

\* MessageHeader.as_buffer(message_type, byte_length) is called, once in a
\* run
CallAsBuffer(message_type, byte_length) ==
  /\ made.op = "none"
  /\ buffer' = as_buffer(message_type, byte_length)
  /\ made' = [op |-> "as_buffer", type |-> message_type,
              length |-> byte_length, message |-> NoArg, altered |-> 0]
  /\ parsed' = NotParsed /\ decoded' = NotDecoded
  /\ UNCHANGED <<driver, touch, emitter>>

\* one byte of the header arrives with another value
AlterByte(i, v) ==
  /\ made.op = "as_buffer" /\ made.altered < MaxAltered
  /\ i \in 1..Len(buffer) /\ buffer[i] # v
  \* the most significant bytes of the length and of the type stay below
  \* 128, so that the fields stay below 2^31
  /\ i \in {8, 12} => v < 128
  /\ buffer' = [buffer EXCEPT ![i] = v]
  /\ made' = [made EXCEPT !.altered = @ + 1]
  /\ parsed' = NotParsed /\ decoded' = NotDecoded
  /\ UNCHANGED <<driver, touch, emitter>>

\* the bytes arrive without the last one
DropByte ==
  /\ made.op = "as_buffer" /\ made.altered < MaxAltered
  /\ buffer' = Slice(buffer, 0, Len(buffer) - 1)
  /\ made' = [made EXCEPT !.altered = @ + 1]
  /\ parsed' = NotParsed /\ decoded' = NotDecoded
  /\ UNCHANGED <<driver, touch, emitter>>

\* the bytes arrive with one more
AddByte(v) ==
  /\ made.op = "as_buffer" /\ made.altered < MaxAltered
  /\ buffer' = Append(buffer, v)
  /\ made' = [made EXCEPT !.altered = @ + 1]
  /\ parsed' = NotParsed /\ decoded' = NotDecoded
  /\ UNCHANGED <<driver, touch, emitter>>

\* the coordinates touches are built with, in units of 1/Unit: below 0,
\* inside [0, 1] (with products that end in .5 and in other fractions) and
\* above 1
TouchCoords == {-1024, -1, 0, 1, 32, 96, 512, 717, 1023, 1024, 1025, 2048}

\* multi-touch lists of none, one and two items, with coordinates below 0,
\* inside [0, 1] and above 1
MultiTouches ==
  LET items == {[x |-> x, y |-> y, action |-> MultiTouchAction[a]] :
                  x \in {-1024, 0, 1, 512, 717, 2048}, y \in {0, 256, 1024},
                  a \in DOMAIN MultiTouchAction}
  IN {<<>>} \cup {<<t>> : t \in items}
       \cup {<<[x |-> 512, y |-> 256, action |-> MultiTouchAction.Down], t>> :
               t \in items}

\* the messages serialize is called on: those start sends for each
\* configuration, every command, the three messages without payload,
\* touches, multi-touches, microphone samples, the logo types and icon
\* configurations with and without a label
Sendables ==
  UNION {{init_messages(c)[j] : j \in 1..Len(init_messages(c))} :
           c \in Configs}
    \cup {SendCommand(name) : name \in DOMAIN CommandMapping}
    \cup {HeartBeat, SendCloseDongle, SendDisconnectPhone}
    \cup {SendTouch(x, y, TouchAction[a]) :
            x \in TouchCoords, y \in TouchCoords, a \in DOMAIN TouchAction}
    \cup {SendMultiTouch(touch_data) : touch_data \in MultiTouches}
    \cup {SendAudio(data) :
            data \in {<<>>, <<0>>, <<1, -1>>, <<32767, -32768, 256>>}}
    \cup {SendLogoType(LogoType[l]) : l \in DOMAIN LogoType}
    \cup {SendIconConfig(icon) :
            icon \in {[label |-> "car"], [label |-> ""], [name |-> "car"]}}

\* message.serialize() is called, once in a run
CallSerialize(m) ==
  /\ made.op = "none"
  /\ buffer' = serialize(m)
  /\ made' = [op |-> "serialize", type |-> TypeOf(m), length |-> 0,
              message |-> m, altered |-> 0]
  /\ parsed' = NotParsed /\ decoded' = NotDecoded
  /\ UNCHANGED <<driver, touch, emitter>>

\* the frame is read back as the read loop reads a frame: from_buffer on its
\* first 16 bytes, then to_message on the bytes after them
CallToMessage ==
  /\ made.op = "serialize" /\ parsed = NotParsed
  /\ parsed' = from_buffer(Slice(buffer, 0, DATA_LENGTH))
  /\ decoded' = to_message(parsed', Slice(buffer, DATA_LENGTH, Len(buffer)))
  /\ UNCHANGED <<driver, touch, emitter, buffer, made>>

\* MessageHeader.from_buffer(data) is called on the bytes
CallFromBuffer ==
  /\ made.op = "as_buffer" /\ parsed = NotParsed
  /\ parsed' = from_buffer(buffer)
  /\ UNCHANGED <<driver, touch, emitter, buffer, made, decoded>>

NextWire ==
  \* the type codes given to as_buffer, recognized and not, and the
  \* lengths, both up to 2^31 - 1
  \/ \E t \in {0, 1, MessageType.Unplugged, MessageType.Command, 119,
               MessageType.HeartBeat, MessageType.SoftwareVersion, 255, 256,
               65536, 16777216, 2147483647},
        n \in {0, 1, 4, 255, 256, 49152, 65536, 2147483647} :
       CallAsBuffer(t, n)
  \/ \E m \in Sendables : CallSerialize(m)
  \/ \E i \in 1..DATA_LENGTH, v \in AlteredBytes : AlterByte(i, v)
  \/ DropByte
  \/ \E v \in AlteredBytes : AddByte(v)
  \/ CallFromBuffer
  \/ CallToMessage

\* SpecWire: headers and frames are built, altered and parsed
SpecWire == InitDefault /\ [][NextWire]_vars

(***************************************************************************)
(* TouchHandler (touch_handler.py).  The handlers run to completion on the *)
(* one thread of the user interface, so each call is one step.  A          *)
(* normalized coordinate is the float nearest to a quotient of two ints,   *)
(* held as that quotient in lowest terms: two quotients of ints below 2^26 *)
(* are the same float exactly when they are the same fraction.             *)
(***************************************************************************)
\* a / b for ints a >= 0 and b > 0
TrueDiv(a, b) ==
  LET g == CHOOSE d \in 1..b :
             /\ a % d = 0 /\ b % d = 0
             /\ \A e \in (d + 1)..b : ~(a % e = 0 /\ b % e = 0)
  IN [num |-> a \div g, den |-> b \div g]

\* max(0.0, min(1.0, q)): min gives q when q < 1.0 and else 1.0, max gives
\* that when it is above 0.0 and else 0.0
clamp_unit(q) ==
  LET least == IF q.num < q.den THEN q ELSE [num |-> 1, den |-> 1]
  IN IF least.num > 0 THEN least ELSE [num |-> 0, den |-> 1]

\* what canvas_to_normalized gives when line 89 or 90 divides by 0
ZeroDivisionError == <<"ZeroDivisionError">>

\* lines 29-44: a new TouchHandler
TouchHandler(callback) ==
  /\ send_callback' = callback /\ touch_active' = FALSE
  /\ last_touch_pos' = <<>>
  /\ video_size' = <<>> /\ display_size' = <<>> /\ display_offset' = <<>>
  /\ sent' = <<>>
  /\ direct' = FALSE
  /\ touch_call' = [op |-> "__init__", x |-> 0, y |-> 0, ret |-> "None"]
  /\ UNCHANGED <<driver, emitter, wire>>

\* lines 46-60
set_display_info(video, display, offset) ==
  /\ video_size' = video /\ display_size' = display
  /\ display_offset' = offset
  /\ touch_call' = [op |-> "set_display_info", x |-> 0, y |-> 0,
                    ret |-> "None"]
  /\ UNCHANGED <<send_callback, touch_active, last_touch_pos, sent>>
  /\ UNCHANGED <<driver, emitter, wire, direct>>

\* lines 62-96: <<>> for None, ZeroDivisionError when a side of the display
\* is 0
canvas_to_normalized(canvas_x, canvas_y) ==
  IF video_size = <<>> \/ display_size = <<>> \/ display_offset = <<>>
    THEN <<>>
    ELSE LET display_width == display_size[1]
             display_height == display_size[2]
             offset_x == display_offset[1]
             offset_y == display_offset[2]
         IN IF \/ canvas_x < offset_x \/ canvas_x > offset_x + display_width
               \/ canvas_y < offset_y \/ canvas_y > offset_y + display_height
              THEN <<>>
              ELSE IF display_width = 0 \/ display_height = 0
              THEN ZeroDivisionError
              ELSE LET img_x == canvas_x - offset_x
                       img_y == canvas_y - offset_y
                       normalized_x == TrueDiv(img_x, display_width)
                       normalized_y == TrueDiv(img_y, display_height)
                   IN << clamp_unit(normalized_x), clamp_unit(normalized_y) >>

\* lines 98-109: the calls the callback has received and the last position,
\* after send_touch(x, y, action)
send_touch(x, y, action) ==
  IF send_callback # "None"
    THEN [sent |-> Append(sent, [x |-> x, y |-> y, action |-> action]),
          last_touch_pos |-> <<x, y>>]
    ELSE [sent |-> sent, last_touch_pos |-> last_touch_pos]

\* lines 111-129
handle_down(canvas_x, canvas_y) ==
  /\ Len(sent) < MaxSent
  /\ LET coords == canvas_to_normalized(canvas_x, canvas_y) IN
     IF coords = <<>>
       THEN /\ touch_call' = [op |-> "handle_down", x |-> canvas_x,
                              y |-> canvas_y, ret |-> "False"]
            /\ UNCHANGED <<sent, last_touch_pos, touch_active>>
       ELSE IF coords = ZeroDivisionError
       THEN /\ touch_call' = [op |-> "handle_down", x |-> canvas_x,
                              y |-> canvas_y, ret |-> "ZeroDivisionError"]
            /\ UNCHANGED <<sent, last_touch_pos, touch_active>>
       ELSE LET after == send_touch(coords[1], coords[2], TouchAction.Down)
            IN /\ sent' = after.sent
               /\ last_touch_pos' = after.last_touch_pos
               /\ touch_active' = TRUE
               /\ touch_call' = [op |-> "handle_down", x |-> canvas_x,
                                 y |-> canvas_y, ret |-> "True"]
  /\ UNCHANGED <<send_callback, video_size, display_size, display_offset>>
  /\ UNCHANGED <<driver, emitter, wire, direct>>

\* lines 131-151
handle_move(canvas_x, canvas_y) ==
  /\ Len(sent) < MaxSent
  /\ LET coords == canvas_to_normalized(canvas_x, canvas_y) IN
     IF ~touch_active
       THEN /\ touch_call' = [op |-> "handle_move", x |-> canvas_x,
                              y |-> canvas_y, ret |-> "False"]
            /\ UNCHANGED <<sent, last_touch_pos>>
       ELSE IF coords = <<>>
       THEN /\ touch_call' = [op |-> "handle_move", x |-> canvas_x,
                              y |-> canvas_y, ret |-> "False"]
            /\ UNCHANGED <<sent, last_touch_pos>>
       ELSE IF coords = ZeroDivisionError
       THEN /\ touch_call' = [op |-> "handle_move", x |-> canvas_x,
                              y |-> canvas_y, ret |-> "ZeroDivisionError"]
            /\ UNCHANGED <<sent, last_touch_pos>>
       ELSE LET after == send_touch(coords[1], coords[2], TouchAction.Move)
            IN /\ sent' = after.sent
               /\ last_touch_pos' = after.last_touch_pos
               /\ touch_call' = [op |-> "handle_move", x |-> canvas_x,
                                 y |-> canvas_y, ret |-> "True"]
  /\ UNCHANGED <<send_callback, touch_active, video_size, display_size,
                 display_offset>>
  /\ UNCHANGED <<driver, emitter, wire, direct>>

\* lines 153-179
handle_up(canvas_x, canvas_y) ==
  /\ Len(sent) < MaxSent
  /\ LET coords == canvas_to_normalized(canvas_x, canvas_y) IN
     IF ~touch_active
       THEN /\ touch_call' = [op |-> "handle_up", x |-> canvas_x,
                              y |-> canvas_y, ret |-> "False"]
            /\ UNCHANGED <<sent, last_touch_pos, touch_active>>
       ELSE IF coords = <<>>
         THEN \* lines 167-173: the up event at the last known position
              LET after == IF last_touch_pos # <<>>
                             THEN send_touch(last_touch_pos[1],
                                             last_touch_pos[2], TouchAction.Up)
                             ELSE [sent |-> sent,
                                   last_touch_pos |-> last_touch_pos]
              IN /\ sent' = after.sent
                 /\ last_touch_pos' = after.last_touch_pos
                 /\ touch_active' = FALSE
                 /\ touch_call' = [op |-> "handle_up", x |-> canvas_x,
                                   y |-> canvas_y, ret |-> "False"]
         ELSE IF coords = ZeroDivisionError
         THEN /\ touch_call' = [op |-> "handle_up", x |-> canvas_x,
                                y |-> canvas_y, ret |-> "ZeroDivisionError"]
              /\ UNCHANGED <<sent, last_touch_pos, touch_active>>
         ELSE LET after == send_touch(coords[1], coords[2], TouchAction.Up)
              IN /\ sent' = after.sent
                 /\ last_touch_pos' = after.last_touch_pos
                 /\ touch_active' = FALSE
                 /\ touch_call' = [op |-> "handle_up", x |-> canvas_x,
                                   y |-> canvas_y, ret |-> "True"]
  /\ UNCHANGED <<send_callback, video_size, display_size, display_offset>>
  /\ UNCHANGED <<driver, emitter, wire, direct>>

\* lines 181-187
cancel_touch ==
  /\ Len(sent) < MaxSent
  /\ sent' = IF touch_active /\ last_touch_pos # <<>>
               THEN send_touch(last_touch_pos[1], last_touch_pos[2],
                               TouchAction.Up).sent
               ELSE sent
  /\ touch_active' = FALSE
  /\ last_touch_pos' = <<>>
  /\ touch_call' = [op |-> "cancel_touch", x |-> 0, y |-> 0, ret |-> "None"]
  /\ UNCHANGED <<send_callback, video_size, display_size, display_offset>>
  /\ UNCHANGED <<driver, emitter, wire, direct>>

\* lines 98-109, called by the application itself: send_touch(x, y, action)
CallSendTouch(x, y, action) ==
  /\ Len(sent) < MaxSent
  /\ LET after == send_touch(x, y, action)
     IN /\ sent' = after.sent
        /\ last_touch_pos' = after.last_touch_pos
  /\ direct' = TRUE
  /\ touch_call' = [op |-> "send_touch", x |-> x, y |-> y, ret |-> "None"]
  /\ UNCHANGED <<send_callback, touch_active, video_size, display_size,
                 display_offset>>
  /\ UNCHANGED <<driver, emitter, wire>>

\* SpecTouch: a TouchHandler is made with or without a callback, the
\* display area is set, also to an area without width, the pointer goes
\* down, moves and up at points of the canvas inside and outside the display
\* area, and the application sends events of its own, with coordinates
\* inside and outside [0, 1], in any order
NextTouch ==
  \/ \E callback \in {"None", "callback"} : TouchHandler(callback)
  \/ \E display \in {<<3, 2>>, <<4, 2>>, <<0, 2>>},
        offset \in {<<0, 0>>, <<1, 1>>} :
       set_display_info(<<8, 4>>, display, offset)
  \/ \E x \in {[num |-> 1, den |-> 2], [num |-> 3, den |-> 2]},
        a \in DOMAIN TouchAction :
       CallSendTouch(x, [num |-> 1, den |-> 4], TouchAction[a])
  \/ \E canvas_x \in {0, 2, 5}, canvas_y \in {1, 4} :
       \/ handle_down(canvas_x, canvas_y)
       \/ handle_move(canvas_x, canvas_y)
       \/ handle_up(canvas_x, canvas_y)
  \/ cancel_touch

SpecTouch == InitDefault /\ [][NextTouch]_vars

\* C25: parsing the 16 bytes as_buffer made of a type code and a length
\* succeeds and yields that length and that type code, whether or not the
\* type code is a recognized MessageType
C25_HeaderRoundTrip ==
  (Unaltered("as_buffer") /\ parsed # NotParsed)
    => /\ Len(buffer) = DATA_LENGTH
       /\ parsed.ok
       /\ parsed.length = made.length /\ parsed.type = made.type

\* the header of a type code that is not recognized, with the largest length
\* of the model, has been parsed
C25_Witness ==
  /\ Unaltered("as_buffer") /\ parsed # NotParsed
  /\ made.type = 119 /\ made.length = 2147483647 /\ ~parsed.known

\* the messages of the HeaderBuildError from_buffer raises
HeaderBuildErrors ==
  {"Invalid buffer size", "Invalid magic number", "Invalid type check"}

\* 16 bytes that begin with 0x55AA55AA, least significant byte first, and
\* whose fourth u32 is the complement of the third
WellFormedHeader(data) ==
  /\ Len(data) = 16
  /\ data[1] = 170 /\ data[2] = 85 /\ data[3] = 170 /\ data[4] = 85
  /\ \A k \in 1..4 : data[12 + k] = 255 - data[8 + k]

\* C27: from_buffer accepts a byte string exactly when it has 16 bytes, begins
\* with the magic and has a fourth u32 that is the complement of the third,
\* whether or not the type code is recognized; else it raises HeaderBuildError
\* and yields no header
C27_HeaderAcceptance ==
  LET data == IF made.op = "serialize" THEN Slice(buffer, 0, DATA_LENGTH)
                                       ELSE buffer
  IN parsed # NotParsed
    => /\ parsed.ok <=> WellFormedHeader(data)
       /\ ~parsed.ok => /\ parsed.error \in HeaderBuildErrors
                        /\ parsed.length = 0 /\ parsed.type = 0

\* a header of a type code that is not recognized was accepted with an
\* altered length
C27_Witness ==
  /\ made.op = "as_buffer" /\ made.altered = 1
  /\ parsed.ok /\ ~parsed.known /\ parsed.length # made.length

\* C26: a frame serialize has produced starts with the magic 0x55AA55AA, has
\* a type check that is the complement of its type, and has a length field
\* equal to the number of bytes after the header: 0 for HeartBeat, CloseDongle
\* and DisconnectPhone, whose frames have 16 bytes
C26_FrameLaw ==
  Unaltered("serialize")
    => /\ Len(buffer) >= DATA_LENGTH
       /\ UnpackU32(Slice(buffer, 0, 4)) = MAGIC
       /\ \A k \in 1..4 : buffer[12 + k] = 255 - buffer[8 + k]
       /\ UnpackU32(Slice(buffer, 8, 12)) = made.type
       /\ UnpackU32(Slice(buffer, 4, 8)) = Len(buffer) - DATA_LENGTH
       /\ made.message \in {HeartBeat, SendCloseDongle, SendDisconnectPhone}
            => Len(buffer) = DATA_LENGTH

\* a message with a payload has been serialized
C26_Witness ==
  /\ Unaltered("serialize") /\ made.message.cls = "SendBoxSettings"
  /\ Len(buffer) > DATA_LENGTH

\* the items of the settings SendBoxSettings emits for a configuration, each
\* key as its bytes
Settings(cfg) ==
  << <<AsciiEncode("mediaDelay"), cfg.media_delay>>,
     <<AsciiEncode("syncTime"), get_current_time_in_ms>>,
     <<AsciiEncode("androidAutoSizeW"), cfg.width>>,
     <<AsciiEncode("androidAutoSizeH"), cfg.height>> >>

\* C29: read back, the frame of SendCommand(c) gives a Command message with
\* the value of c, the frame of SendOpen(config) an Opened message with the
\* seven fields of the configuration, and the frame of SendBoxSettings a
\* BoxInfo whose settings are the keys and values emitted
C29_SendableRoundTrip ==
  (Unaltered("serialize") /\ decoded # NotDecoded)
    => /\ made.message.cls = "SendCommand"
            => /\ decoded = Decoded(MessageType.Command, <<made.message.value>>)
               /\ \E c \in DOMAIN CommandMapping :
                    made.message.value = CommandMapping[c]
       /\ made.message.cls = "SendOpen"
            => decoded =
                 Decoded(MessageType.Open,
                         << made.message.config.width,
                            made.message.config.height,
                            made.message.config.fps,
                            made.message.config.format,
                            made.message.config.packet_max,
                            made.message.config.i_box_version,
                            made.message.config.phone_work_mode >>)
       /\ made.message.cls = "SendBoxSettings"
            => decoded = Decoded(MessageType.BoxSettings,
                                 Settings(made.message.config))

\* the frame of SendBoxSettings has been read back as a BoxInfo
C29_Witness ==
  /\ Unaltered("serialize") /\ made.message.cls = "SendBoxSettings"
  /\ decoded.kind = "message" /\ Len(decoded.fields) = 4

\* the x_scaled (lo = 4) or y_scaled (lo = 8) field of a Touch frame
Scaled(frame, lo) == Field(Slice(frame, DATA_LENGTH, Len(frame)), lo)

\* C31: the x_scaled and y_scaled fields of the frame of SendTouch(x, y,
\* action) lie in 0..10000 for every x and y, below 0 and above 1 included,
\* and a larger coordinate inside [0, 1] never gives a smaller field
C31_TouchClamp ==
  (Unaltered("serialize") /\ made.message.cls = "SendTouch")
    => LET m == made.message IN
       /\ Scaled(buffer, 4) \in 0..10000
       /\ Scaled(buffer, 8) \in 0..10000
       /\ Scaled(buffer, 0) = m.action
       /\ \A c \in TouchCoords :
            /\ (0 <= m.x /\ m.x <= c /\ c <= Unit)
                 => Scaled(buffer, 4)
                      <= Scaled(serialize(SendTouch(c, m.y, m.action)), 4)
            /\ (0 <= m.y /\ m.y <= c /\ c <= Unit)
                 => Scaled(buffer, 8)
                      <= Scaled(serialize(SendTouch(m.x, c, m.action)), 8)

\* the frame of a touch left of the display and below it has been made: its
\* fields are 0 and 10000
C31_Witness ==
  /\ Unaltered("serialize") /\ made.message.cls = "SendTouch"
  /\ made.message.x < 0 /\ made.message.y > Unit
  /\ Scaled(buffer, 4) = 0 /\ Scaled(buffer, 8) = 10000

\* round(num / den) of Python for den > 0: to the nearest integer, a half to
\* the even neighbour
Round(num, den) ==
  LET q == num \div den
      r == num % den
  IN IF 2 * r < den THEN q
     ELSE IF 2 * r > den THEN q + 1
     ELSE IF q % 2 = 0 THEN q ELSE q + 1

\* C32 as stated: the x_scaled field of the frame of SendTouch(x, y, action)
\* is 10000 * x rounded to the nearest integer and then clamped to 0..10000,
\* and the y_scaled field is the same of y
C32_TouchRounded ==
  (Unaltered("serialize") /\ made.message.cls = "SendTouch")
    => /\ Scaled(buffer, 4)
            = clamp(Round(10000 * made.message.x, Unit), 0, 10000)
       /\ Scaled(buffer, 8)
            = clamp(Round(10000 * made.message.y, Unit), 0, 10000)

\* C33: when a read thread is about to run the failure sinks (its close has
\* returned and emit('failure') is next), both stop flags are cleared and the
\* device is released, so that a send made by a sink returns None at its
\* first test
C33_FailureAfterClosed ==
  \A r \in ReadThreads :
    pc[r] = "read_emit"
      => ~running /\ ~heartbeat_running /\ device = "None"

\* a close has cleared both stop flags: a thread is in close past line 278,
\* or the device of a started session has been released
FlagsCleared ==
  \/ \E p \in Procs :
       pc[p] \in {"close_hb_check", "close_hb_join", "close_hb_wait",
                  "close_hb_clear", "close_rd_check", "close_rd_join",
                  "close_rd_wait", "close_rd_clear", "close_device",
                  "close_in_ep", "close_out_ep"}
  \/ nstart > 0 /\ device = "None"

\* C34: once a close has cleared the stop flags, a read thread at its loop
\* head and a heartbeat thread at its loop head begin no further iteration:
\* the test of the read thread fails on _running, or goes on to fail on the
\* released device, and the test of the heartbeat thread fails
C34_StopAtLoopHead ==
  [][FlagsCleared
       => /\ \A r \in ReadThreads :
               (pc[r] = "read_head" /\ pc'[r] # "read_head")
                 => \/ pc'[r] = "done"
                    \/ pc'[r] = "read_head_device" /\ device = "None"
          /\ \A h \in HeartbeatThreads :
               (pc[h] = "hb_head" /\ pc'[h] # "hb_head")
                 => pc'[h] = "done"]_vars

\* C35: while the session is Running (the device is held and _running is
\* set) no step lowers the error counter, and the step that decodes a frame
\* and delivers its message leaves the counter as it is
C35_ErrorCountCumulative ==
  [][/\ (running /\ device # "None") => error_count' >= error_count
     /\ \A r \in ReadThreads :
          (pc[r] = "read_message" /\ pc'[r] # "read_message")
            => error_count' = error_count]_vars

\* C36: a failure event is emitted only by a read thread and only in a state
\* in which the error counter has reached MAX_ERROR_COUNT; a close that
\* another thread runs emits none
C36_FailureOnlyAtCeiling ==
  [][(Len(events') > Len(events) /\ events'[Len(events')].name = "failure")
       => /\ events'[Len(events')].by \in ReadThreads
          /\ pc[events'[Len(events')].by] = "read_emit"
          /\ error_count >= MAX_ERROR_COUNT]_vars

\* the message event a read thread emits for a decoded frame
MessageEvent(r, m) ==
  [name |-> "message", by |-> r, type |-> m.type, fields |-> m.fields]

\* C37: frames are dispatched one at a time, in the order they were read:
\* the step of a read thread that decodes its frame emits exactly one message
\* event for a frame that decodes and none for one that does not, and while
\* it does so no other read thread holds a frame that it has read and not
\* yet dispatched
C37_WireOrder ==
  [][\A r \in ReadThreads :
       (pc[r] = "read_message" /\ pc'[r] # "read_message")
         => /\ LET m == to_message(header[r], extra_data[r]) IN
                 events' = IF m.kind = "message"
                             THEN Append(events, MessageEvent(r, m))
                             ELSE events
            /\ \A o \in ReadThreads \ {r} :
                 pc[o] \notin {"read_payload", "read_in_payload",
                               "read_message"}]_vars

\* read thread r is counting the exception of a message sink: its frame was
\* read whole and decoded, and the loop is at self.error_count += 1
SinkRaised(r) ==
  /\ pc[r] \in {"read_count", "read_count_store"}
  /\ header[r].ok /\ read_error[r] = "none"
  /\ to_message(header[r], extra_data[r]).kind = "message"

\* C38: when the frame decodes, the dispatch step of a read thread emits the
\* message and goes on to the loop head or, a sink having raised, to the
\* counting of an error, never out of the loop; the exception of the sink is
\* counted as one error, after which the thread is at its loop head again;
\* and a read thread that finds five errors counted closes the session
C38_SinkExceptionCounted ==
  [][\A r \in ReadThreads :
       /\ (/\ pc[r] = "read_message" /\ pc'[r] # "read_message"
           /\ to_message(header[r], extra_data[r]).kind = "message")
            => /\ pc'[r] \in {"read_head", "read_count"}
               /\ Len(events') = Len(events) + 1
               /\ error_count' = error_count
       /\ (SinkRaised(r) /\ pc'[r] # pc[r])
            => /\ events' = events
               /\ \/ pc'[r] = "read_count_store" /\ error_count' = error_count
                  \/ pc'[r] = "read_head" /\ error_count' = error_count + 1
       /\ (/\ pc[r] = "read_check" /\ pc'[r] # "read_check"
           /\ error_count >= MAX_ERROR_COUNT)
            => pc'[r] = "close_check" /\ retpc'[r] = "read_emit"
      ]_vars

\* the exception of a message sink has been counted as the fifth error: the
\* message was emitted, the read thread is back at its loop head and will
\* close the session
C38_Witness ==
  \E r \in ReadThreads :
    /\ pc[r] = "read_head"
    /\ header[r].ok /\ read_error[r] = "none"
    /\ to_message(header[r], extra_data[r]).kind = "message"
    /\ events # <<>> /\ events[Len(events)].name = "message"
    /\ error_count = MAX_ERROR_COUNT

\* C39: start ignores what the sends of its burst return.  When every write
\* of the burst is short or raises, each send of an init message is followed
\* by the send of the next message of the burst, wifiConnect after the last
\* of them; the send of wifiConnect is followed by the creation of the
\* threads, at which point the OUT endpoint has received the write calls of
\* the whole burst from this start, in order; and when start returns both
\* threads have been started and the session is Running
C39_BurstIgnoresResults ==
  [][\A c \in Callers :
       LET want == BurstOrder(config) IN
       /\ (/\ pc[c] = "send_in_write" /\ retpc[c] = "start_burst"
           /\ pc'[c] # "send_in_write")
            => /\ pc'[c] = "send_check"
               /\ message[c] = want[idx[c]]
               /\ message'[c] = want[idx[c] + 1]
               /\ out' = out
       /\ (/\ pc[c] = "send_in_write" /\ retpc[c] = "start_read_thread"
           /\ pc'[c] # "send_in_write")
            => /\ pc'[c] = "start_read_thread"
               /\ Len(out') >= Len(want)
               /\ \A j \in 1..Len(want) :
                    out'[Len(out') - Len(want) + j]
                      = [by |-> c, message |-> want[j]]
       /\ (pc[c] = "start_heartbeat_run" /\ pc'[c] = "idle")
            => /\ Running'
               /\ read_thread' = <<"read", tid[c]>>
               /\ heartbeat_thread' = <<"heartbeat", tid[c]>>
               /\ Alive(read_thread)' /\ Alive(heartbeat_thread)']_vars

\* start has returned on a session whose OUT endpoint accepted no whole
\* frame of the burst, and the session is Running with both threads alive
C39_Witness ==
  /\ Running
  /\ Alive(read_thread) /\ Alive(heartbeat_thread)
  /\ Len(out) = Len(BurstOrder(config))
  /\ \E c \in Callers :
       /\ pc[c] = "idle"
       /\ result[c] = [op |-> "start", val |-> "None"]

\* the point of the canvas lies in the display area the handler knows
InDisplay(x, y) ==
  /\ video_size # <<>> /\ display_size # <<>> /\ display_offset # <<>>
  /\ display_offset[1] <= x /\ x <= display_offset[1] + display_size[1]
  /\ display_offset[2] <= y /\ y <= display_offset[2] + display_size[2]

\* the callback has received a Down, and no Up since
TouchOpen ==
  \E i \in 1..Len(sent) :
    /\ sent[i].action = TouchAction.Down
    /\ \A j \in (i + 1)..Len(sent) : sent[j].action # TouchAction.Up

\* C40: in every call of a sequence of handle_down, handle_move, handle_up
\* and cancel_touch on a TouchHandler (the application sends no event of its
\* own) the callback receives at most one event more; a Move or an Up is
\* sent only while the touch is active, which is after a Down and before the
\* next Up; handle_move and handle_up with no active touch return False, send
\* nothing and leave the touch inactive; after handle_up on an active touch
\* and after cancel_touch the touch is inactive; and handle_up on an active
\* touch at a point outside the display area sends the Up at the position of
\* the last event sent
C40_TouchLifecycle ==
  [][~direct' =>
       LET op == touch_call'.op
           new == SubSeq(sent', Len(sent) + 1, Len(sent'))
       IN
       /\ op # "__init__" =>
            /\ Len(sent') \in {Len(sent), Len(sent) + 1}
            /\ SubSeq(sent', 1, Len(sent)) = sent
       /\ (op # "__init__" /\ new # <<>>
           /\ new[1].action \in {TouchAction.Move, TouchAction.Up})
            => /\ touch_active /\ TouchOpen
               /\ op = "handle_move" <=> new[1].action = TouchAction.Move
               /\ new[1].action = TouchAction.Up => ~TouchOpen'
       /\ (op \in {"handle_move", "handle_up"} /\ ~touch_active)
            => /\ touch_call'.ret = "False"
               /\ sent' = sent /\ ~touch_active'
       /\ (op = "handle_up" /\ touch_active) \/ op = "cancel_touch"
            => ~touch_active'
       /\ (/\ op = "handle_up" /\ touch_active
           /\ ~InDisplay(touch_call'.x, touch_call'.y))
            => /\ touch_call'.ret = "False"
               /\ new = IF sent = <<>> THEN <<>>
                        ELSE << [x |-> sent[Len(sent)].x,
                                 y |-> sent[Len(sent)].y,
                                 action |-> TouchAction.Up] >>]_vars

====
